---- MODULE Spec2Model ----
(***************************************************************************)
(* Model of the UI layer of terrarier2111/monopoly (src/src/ui.rs):        *)
(* Component variants (ColorBox, TextBox, Button), the dirty-cached        *)
(* UIComponent wrapper and the Container with its click/hover dispatch;    *)
(* and of its renderer (src/src/render.rs) and event loop                  *)
(* (src/src/main.rs): frame submission, the model registry, the camera     *)
(* controller, resize handling.                                            *)
(*                                                                         *)
(* Numbers.  Screen coordinates are normalized to [0,1]; they are kept as  *)
(* integers in units of 1/GridMax, so that a clip coordinate               *)
(* 2*x - 1 is the integer 2*x - GridMax in the same unit.  Colour channels *)
(* and scale factors are fixed-point numbers in units of 1/One.            *)
(***************************************************************************)
EXTENDS Integers, Sequences, FiniteSets, TLC

\* ------------------------------------------------------------------ bounds
GridMax == 3
MaxComps == 3

\* --------------------------------------------------------- number encoding
One == 100
HoverScale == 80
PressScale == 80

Mul(a, b) == (a * b) \div One

Coords == 0..GridMax
\* pointer positions tried: the diagonal of the grid and the corner opposite
\* to it
Points == {p \in Coords \X Coords : p[1] = p[2]} \cup {<<GridMax, 0>>}

ClickKinds == {"PressDown", "Release"}
HoverModes == {"Enter", "Exit"}

\* HoverMode::to_bool
to_bool(mode) == mode = "Enter"

\* ------------------------------------------------------------- hit testing
is_inbounds(dims, pos, test) ==
    LET bounds == <<pos[1] + dims[1], pos[2] + dims[2]>>
    IN  (test[1] >= pos[1] /\ test[2] >= pos[2])
        /\ (test[1] <= bounds[1] /\ test[2] <= bounds[2])

\* ------------------------------------------------------- geometry builders
COLOR_UV_OFFSETS ==
    << <<0, 0>>, <<One, 0>>, <<One, One>>, <<0, 0>>, <<0, One>>, <<One, One>> >>

\* mutant: the quad is built at the origin, the component's pos is dropped
QuadPositionsNoOffset(pos, width, height) ==
    << << 0 - GridMax, 0 - GridMax >>,
       << 2 * width - GridMax, 0 - GridMax >>,
       << 2 * width - GridMax, 2 * height - GridMax >>,
       << 0 - GridMax, 0 - GridMax >>,
       << 0 - GridMax, 2 * height - GridMax >>,
       << 2 * width - GridMax, 2 * height - GridMax >> >>

\* the six clip-space corners computed by ColorBox/TextBox::build_model
QuadPositions(pos, width, height) ==
    LET x_off == 2 * pos[1]
        y_off == 2 * pos[2]
    IN  << << (0 - GridMax) + x_off, (0 - GridMax) + y_off >>,
           << 2 * width - GridMax + x_off, (0 - GridMax) + y_off >>,
           << 2 * width - GridMax + x_off, 2 * height - GridMax + y_off >>,
           << (0 - GridMax) + x_off, (0 - GridMax) + y_off >>,
           << (0 - GridMax) + x_off, 2 * height - GridMax + y_off >>,
           << 2 * width - GridMax + x_off, 2 * height - GridMax + y_off >> >>

QuadVertices(pos, width, height, coloring) ==
    LET vertices == QuadPositions(pos, width, height)
    IN  IF coloring.tag = "Color"
        THEN [i \in 1..6 |-> [tag |-> "Color", pos |-> vertices[i],
                              color |-> coloring.colors[i]]]
        ELSE [idx \in 1..6 |->
                [tag |-> "Texture", pos |-> vertices[idx], alpha |-> One,
                 uv |-> IF coloring.ty.tag = "Atlas"
                        THEN [kind |-> "Absolute", v |-> coloring.ty.uv]
                        ELSE [kind |-> "Relative", v |-> COLOR_UV_OFFSETS[idx]],
                 color_scale_factor |-> One]]

\* mutant: every model declares per-vertex colours
QuadColorSourcePerVert(coloring) == [tag |-> "PerVert", id |-> 0]

QuadColorSource(coloring) ==
    IF coloring.tag = "Color" THEN [tag |-> "PerVert", id |-> 0]
    ELSE IF coloring.ty.tag = "Atlas"
         THEN [tag |-> "Atlas", id |-> coloring.ty.atlas]
         ELSE [tag |-> "Tex", id |-> coloring.ty.tex]

ColorBoxBuildModel(c) ==
    [vertices |-> QuadVertices(c.pos, c.width, c.height, c.coloring),
     color_src |-> QuadColorSource(c.coloring)]

TextBoxBuildModel(c) ==
    [vertices |-> QuadVertices(c.pos, c.width, c.height, c.coloring),
     color_src |-> QuadColorSource(c.coloring)]

\* mutant: hover and press darken exclusively instead of compounding
ButtonScaleExclusive(b) ==
    IF b.hovered THEN HoverScale ELSE IF b.pressed THEN PressScale ELSE One

ButtonScale(b) ==
    Mul(IF b.hovered THEN HoverScale ELSE One,
        IF b.pressed THEN PressScale ELSE One)

ButtonScaleVertex(vert, scale) ==
    IF vert.tag = "Color"
    THEN [vert EXCEPT !.color = << Mul(vert.color[1], scale),
                                   Mul(vert.color[2], scale),
                                   Mul(vert.color[3], scale),
                                   vert.color[4] >>]
    ELSE [vert EXCEPT !.color_scale_factor = scale]

ButtonBuildModel(b) ==
    LET base_model == TextBoxBuildModel(b.inner_box)
    IN  [vertices |-> [i \in 1..Len(base_model.vertices) |->
                          ButtonScaleVertex(base_model.vertices[i], ButtonScale(b))],
         color_src |-> base_model.color_src]

\* Component::build_model, dispatched over the variants
ComponentBuildModel(c) ==
    CASE c.kind = "Button" -> ButtonBuildModel(c)
      [] c.kind = "TextBox" -> TextBoxBuildModel(c)
      [] c.kind = "ColorBox" -> ColorBoxBuildModel(c)

ComponentPos(c) == IF c.kind = "Button" THEN c.inner_box.pos ELSE c.pos

ComponentDims(c) ==
    IF c.kind = "Button" THEN <<c.inner_box.width, c.inner_box.height>>
    ELSE <<c.width, c.height>>

\* Component::is_hovered; "None" for the variants that do not track hover
ComponentIsHovered(c) ==
    IF c.kind = "Button" THEN (IF c.hovered THEN "Enter" ELSE "Exit") ELSE "None"

\* ------------------------------------------------------ Button transitions
\* mutant: the callback toggles the flag instead of setting it
OnClickCallbackToggle(b) ==
    IF b.inner_box.coloring.tag = "Tex"
    THEN [b EXCEPT !.inner_box.coloring.grayscale_conv =
                       ~b.inner_box.coloring.grayscale_conv]
    ELSE b

\* the click callback the screens install on their buttons
OnClickCallback(b) ==
    IF b.inner_box.coloring.tag = "Tex"
    THEN [b EXCEPT !.inner_box.coloring.grayscale_conv = TRUE]
    ELSE b

\* mutant: a release runs the callback wherever the pointer is
ButtonOnClickNoBoundsCheck(b, click_kind, pos) ==
    IF click_kind = "Release"
    THEN [c |-> OnClickCallback([b EXCEPT !.pressed = FALSE]), cb |-> 1]
    ELSE [c |-> [b EXCEPT !.pressed = TRUE], cb |-> 0]

\* result: the component after the call and the number of callback invocations
ButtonOnClick(b, click_kind, pos) ==
    IF click_kind = "Release"
    THEN LET b1 == [b EXCEPT !.pressed = FALSE]
         IN  IF is_inbounds(ComponentDims(b1), ComponentPos(b1), pos)
             THEN [c |-> OnClickCallback(b1), cb |-> 1]
             ELSE [c |-> b1, cb |-> 0]
    ELSE [c |-> [b EXCEPT !.pressed = TRUE], cb |-> 0]

ButtonOnClickOutside(b) == b

\* mutant: every hover event flips the flag
ButtonOnHoverFlip(b, mode, pos) == [b EXCEPT !.hovered = ~b.hovered]

ButtonOnHover(b, mode, pos) == [b EXCEPT !.hovered = to_bool(mode)]

ComponentOnClick(c, click_kind, pos) ==
    IF c.kind = "Button" THEN ButtonOnClick(c, click_kind, pos)
    ELSE [c |-> c, cb |-> 0]

ComponentOnClickOutside(c) ==
    IF c.kind = "Button" THEN ButtonOnClickOutside(c) ELSE c

ComponentOnHover(c, mode, pos) ==
    IF c.kind = "Button" THEN ButtonOnHover(c, mode, pos) ELSE c

\* ------------------------------------------------- UIComponent (dirty cache)
NoModel == [vertices |-> <<>>, color_src |-> [tag |-> "None", id |-> 0]]

make_dirty(u) == [u EXCEPT !.dirty = TRUE]

UIOnClick(u, click_kind, pos) ==
    LET r == ComponentOnClick(u.inner, click_kind, pos)
    IN  [u |-> make_dirty([u EXCEPT !.inner = r.c]), cb |-> r.cb]

UIOnClickOutside(u) ==
    make_dirty([u EXCEPT !.inner = ComponentOnClickOutside(u.inner)])

UIOnHover(u, mode, pos) ==
    make_dirty([u EXCEPT !.inner = ComponentOnHover(u.inner, mode, pos)])

UIIsHovered(u) == ComponentIsHovered(u.inner)

UIIsInbounds(u, pos) ==
    is_inbounds(ComponentDims(u.inner), ComponentPos(u.inner), pos)

\* mutant: a rebuild is returned but not stored
InnerBuildModelNoStore(u) ==
    IF u.dirty
    THEN [u |-> [u EXCEPT !.dirty = FALSE],
          ret |-> ComponentBuildModel(u.inner), built |-> 1]
    ELSE [u |-> [u EXCEPT !.dirty = FALSE],
          ret |-> u.precomputed_model, built |-> 0]

\* mutant: the dirty flag is ignored, every call rebuilds
InnerBuildModelAlways(u) ==
    LET model == ComponentBuildModel(u.inner)
    IN  [u |-> [u EXCEPT !.dirty = FALSE, !.precomputed_model = model],
         ret |-> model, built |-> 1]

\* InnerUIComponent::build_model run without interference: the component
\* after the call, the model returned and the number of builder invocations
InnerBuildModel(u) ==
    IF u.dirty
    THEN LET model == ComponentBuildModel(u.inner)
         IN  [u |-> [u EXCEPT !.dirty = FALSE, !.precomputed_model = model],
              ret |-> model, built |-> 1]
    ELSE [u |-> [u EXCEPT !.dirty = FALSE],
          ret |-> u.precomputed_model, built |-> 0]

\* --------------------------------------------------------------- Container
ContainerAdd(comps, component) ==
    LET model == ComponentBuildModel(component)
    IN  Append(comps, [inner |-> component, precomputed_model |-> model,
                       dirty |-> FALSE])

ClickCall(click_kind, pos) == [fn |-> "on_click", arg |-> click_kind, pos |-> pos]
OutsideCall == [fn |-> "on_click_outside", arg |-> "", pos |-> <<>>]
HoverCall(mode, pos) == [fn |-> "on_hover", arg |-> mode, pos |-> pos]

\* mutant: the found flag is not consulted, every hit component is clicked
RECURSIVE ScanClickEveryHit(_, _, _, _)
ScanClickEveryHit(acc, idx, pos, click_kind) ==
    IF idx > Len(acc.comps) THEN acc
    ELSE LET component == acc.comps[idx]
         IN  IF UIIsInbounds(component, pos)
             THEN LET r == UIOnClick(component, click_kind, pos)
                  IN  ScanClickEveryHit(
                          [comps |-> [acc.comps EXCEPT ![idx] = r.u],
                           found |-> TRUE,
                           target |-> IF acc.found THEN acc.target ELSE idx,
                           calls |-> Append(acc.calls, <<ClickCall(click_kind, pos)>>),
                           cb |-> Append(acc.cb, r.cb)],
                          idx + 1, pos, click_kind)
             ELSE ScanClickEveryHit(
                      [acc EXCEPT !.comps[idx] = UIOnClickOutside(component),
                                  !.calls = Append(acc.calls, <<OutsideCall>>),
                                  !.cb = Append(acc.cb, 0)],
                      idx + 1, pos, click_kind)

\* the loop of Container::on_mouse_click from component idx on; acc carries
\* the components, the found flag and the calls made so far
RECURSIVE ScanClick(_, _, _, _)
ScanClick(acc, idx, pos, click_kind) ==
    IF idx > Len(acc.comps) THEN acc
    ELSE LET component == acc.comps[idx]
         IN  IF ~acc.found /\ UIIsInbounds(component, pos)
             THEN LET r == UIOnClick(component, click_kind, pos)
                  IN  ScanClick([comps |-> [acc.comps EXCEPT ![idx] = r.u],
                                 found |-> TRUE,
                                 target |-> idx,
                                 calls |-> Append(acc.calls, <<ClickCall(click_kind, pos)>>),
                                 cb |-> Append(acc.cb, r.cb)],
                                idx + 1, pos, click_kind)
             ELSE ScanClick([acc EXCEPT
                                 !.comps[idx] = UIOnClickOutside(component),
                                 !.calls = Append(acc.calls, <<OutsideCall>>),
                                 !.cb = Append(acc.cb, 0)],
                            idx + 1, pos, click_kind)

\* mutant: a hit component behind the first one is not sent Exit
RECURSIVE ScanHoverKeepHit(_, _, _)
ScanHoverKeepHit(acc, idx, pos) ==
    IF idx > Len(acc.comps) THEN acc
    ELSE LET component == acc.comps[idx]
         IN  IF ~acc.found /\ UIIsInbounds(component, pos)
             THEN ScanHoverKeepHit(
                      [acc EXCEPT !.comps[idx] = UIOnHover(component, "Enter", pos),
                                  !.found = TRUE,
                                  !.target = idx,
                                  !.calls = Append(acc.calls, <<HoverCall("Enter", pos)>>),
                                  !.cb = Append(acc.cb, 0)],
                      idx + 1, pos)
             ELSE IF UIIsHovered(component) = "Enter" /\ ~UIIsInbounds(component, pos)
             THEN ScanHoverKeepHit(
                      [acc EXCEPT !.comps[idx] = UIOnHover(component, "Exit", pos),
                                  !.calls = Append(acc.calls, <<HoverCall("Exit", pos)>>),
                                  !.cb = Append(acc.cb, 0)],
                      idx + 1, pos)
             ELSE ScanHoverKeepHit(
                      [acc EXCEPT !.calls = Append(acc.calls, <<>>),
                                  !.cb = Append(acc.cb, 0)],
                      idx + 1, pos)

\* the loop of Container::on_mouse_hover
RECURSIVE ScanHover(_, _, _)
ScanHover(acc, idx, pos) ==
    IF idx > Len(acc.comps) THEN acc
    ELSE LET component == acc.comps[idx]
         IN  IF ~acc.found /\ UIIsInbounds(component, pos)
             THEN ScanHover([acc EXCEPT
                                 !.comps[idx] = UIOnHover(component, "Enter", pos),
                                 !.found = TRUE,
                                 !.target = idx,
                                 !.calls = Append(acc.calls, <<HoverCall("Enter", pos)>>),
                                 !.cb = Append(acc.cb, 0)],
                            idx + 1, pos)
             ELSE IF UIIsHovered(component) = "Enter"
             THEN ScanHover([acc EXCEPT
                                 !.comps[idx] = UIOnHover(component, "Exit", pos),
                                 !.calls = Append(acc.calls, <<HoverCall("Exit", pos)>>),
                                 !.cb = Append(acc.cb, 0)],
                            idx + 1, pos)
             ELSE ScanHover([acc EXCEPT
                                 !.calls = Append(acc.calls, <<>>),
                                 !.cb = Append(acc.cb, 0)],
                            idx + 1, pos)

ScanStart(comps) ==
    [comps |-> comps, found |-> FALSE, target |-> 0, calls |-> <<>>, cb |-> <<>>]

\* the loop of Container::build_models
RECURSIVE ScanBuild(_, _)
ScanBuild(acc, idx) ==
    IF idx > Len(acc.comps) THEN acc
    ELSE LET r == InnerBuildModel(acc.comps[idx])
         IN  ScanBuild([comps |-> [acc.comps EXCEPT ![idx] = r.u],
                        models |-> Append(acc.models, r.ret),
                        built |-> Append(acc.built, r.built)],
                       idx + 1)

\* ------------------------------------------------------ component templates
TemplateColors ==
    << <<100, 100, 0, 100>>, <<100, 0, 0, 100>>, <<100, 0, 100, 100>>,
       <<0, 100, 0, 100>>, <<0, 50, 0, 100>>, <<0, 25, 75, 50>> >>

SimpleTex(id) ==
    [tag |-> "Tex", ty |-> [tag |-> "Simple", tex |-> id], grayscale_conv |-> FALSE]

AtlasTex(id, uv) ==
    [tag |-> "Tex", ty |-> [tag |-> "Atlas", atlas |-> id, uv |-> uv],
     grayscale_conv |-> FALSE]

PerVertColor == [tag |-> "Color", colors |-> TemplateColors]

TextBoxNew(pos, width, height, coloring) ==
    [kind |-> "TextBox", pos |-> pos, width |-> width, height |-> height,
     coloring |-> coloring]

ColorBoxNew(pos, width, height, coloring) ==
    [kind |-> "ColorBox", pos |-> pos, width |-> width, height |-> height,
     coloring |-> coloring]

ButtonNew(inner_box) ==
    [kind |-> "Button", inner_box |-> inner_box, hovered |-> FALSE, pressed |-> FALSE]

Templates ==
    { ButtonNew(TextBoxNew(<<0, 0>>, 2, 2, SimpleTex(1))),
      ButtonNew(TextBoxNew(<<1, 1>>, 2, 2, PerVertColor)),
      ColorBoxNew(<<2, 0>>, 1, 1, PerVertColor) }

\* ------------------------------------------------------------------- state
\* components: Container.components; last: what the last operation was, the
\* calls it made on each component and what it returned; prev: summary of the
\* UIComponent call before the last one
VARIABLES components, last, prev

\* Concurrent calls on one UIComponent.  pc: where each thread is inside its
\* call; loc: the locals of the call in progress; hist: the states the wrapped
\* Component has gone through; pend: the mutations that have returned since a
\* build_model call last started; obs: what each build_model call had to see
\* and what it returned.
VARIABLES pc, loc, hist, pend, obs

concVars == <<pc, loc, hist, pend, obs>>

\* geom: one ColorBox/TextBox and the model built from it; frame: one call of
\* Renderer::render, its arguments and what it submitted; app: the event loop
\* of main (window size, Dimensions, depth texture, Game.models); reg: the
\* model registry of the Renderer and the add_model calls in progress; cam:
\* the CameraController and the pitch of the Camera it drives.
VARIABLES geom, frame, app, reg, cam

\* dims: Renderer.dimensions and the event loop of main reading and writing
\* it; lk: the locks of a Container and of its components, and the threads
\* calling into the container.
VARIABLES dims, lk

uiVars == <<components, last, prev>>

extVars == <<geom, frame, app, reg, cam, dims, lk>>

vars == <<components, last, prev, pc, loc, hist, pend, obs,
          geom, frame, app, reg, cam, dims, lk>>

Unused == [stage |-> "unused"]

ExtIdle ==
    /\ geom = Unused
    /\ frame = Unused
    /\ app = Unused
    /\ reg = Unused
    /\ cam = Unused
    /\ dims = Unused
    /\ lk = Unused

Builders == {"b1", "b2"}
Mutators == {"m1"}
Threads == Builders \cup Mutators

NoOp == [fn |-> "", arg |-> "", pos |-> <<>>]

IdleLoc == [model |-> NoModel, op |-> NoOp, ver |-> 0, ovl |-> FALSE]

IdleObs ==
    [done |-> FALSE, mustSee |-> 0, mustSeeClean |-> 0, ret |-> NoModel,
     built |-> 0, fresh |-> TRUE, freshClean |-> TRUE]

ConcIdle ==
    /\ pc = [t \in Threads |-> "idle"]
    /\ loc = [t \in Threads |-> IdleLoc]
    /\ hist = <<>>
    /\ pend = [ver |-> 0, cleanVer |-> 0]
    /\ obs = [b \in Builders |-> IdleObs]

Zeros(n) == [k \in 1..n |-> 0]
NoCalls(n) == [k \in 1..n |-> <<>>]
NoRets(n) == [k \in 1..n |-> NoModel]

Summary(l) ==
    [op |-> l.op, i |-> l.i, kind |-> l.kind,
     ret |-> IF l.op = "build_model" THEN l.ret[l.i] ELSE NoModel,
     built |-> IF l.op = "build_model" THEN l.built[l.i] ELSE 0]

Record(op, i, kind, pos, calls, cb, ret, built) ==
    [op |-> op, i |-> i, kind |-> kind, pos |-> pos, calls |-> calls,
     cb |-> cb, ret |-> ret, built |-> built]

Init ==
    /\ components = <<>>
    /\ last = Record("new", 0, "", <<>>, <<>>, <<>>, <<>>, <<>>)
    /\ prev = Summary(last)
    /\ ConcIdle
    /\ ExtIdle

\* Container::add
Add(component) ==
    /\ Len(components) < MaxComps
    /\ components' = ContainerAdd(components, component)
    /\ last' = Record("add", Len(components) + 1, "", <<>>,
                      NoCalls(Len(components) + 1), Zeros(Len(components) + 1),
                      NoRets(Len(components) + 1),
                      [k \in 1..(Len(components) + 1) |->
                          IF k = Len(components) + 1 THEN 1 ELSE 0])
    /\ UNCHANGED prev
    /\ UNCHANGED concVars
    /\ UNCHANGED extVars

\* Container::on_mouse_click
OnMouseClick(pos, click_kind) ==
    LET r == ScanClick(ScanStart(components), 1, pos, click_kind)
        n == Len(components)
    IN  /\ components' = r.comps
        /\ last' = Record("on_mouse_click", r.target, click_kind, pos,
                          r.calls, r.cb, NoRets(n), Zeros(n))
        /\ UNCHANGED prev
        /\ UNCHANGED concVars
        /\ UNCHANGED extVars

\* Container::on_mouse_hover
OnMouseHover(pos) ==
    LET r == ScanHover(ScanStart(components), 1, pos)
        n == Len(components)
    IN  /\ components' = r.comps
        /\ last' = Record("on_mouse_hover", r.target, "", pos,
                          r.calls, r.cb, NoRets(n), Zeros(n))
        /\ UNCHANGED prev
        /\ UNCHANGED concVars
        /\ UNCHANGED extVars

\* Container::build_models
BuildModels ==
    LET r == ScanBuild([comps |-> components, models |-> <<>>, built |-> <<>>], 1)
        n == Len(components)
    IN  /\ components' = r.comps
        /\ last' = Record("build_models", 0, "", <<>>, NoCalls(n), Zeros(n),
                          r.models, r.built)
        /\ UNCHANGED prev
        /\ UNCHANGED concVars
        /\ UNCHANGED extVars

Only(n, i, v, d) == [k \in 1..n |-> IF k = i THEN v ELSE d]

\* UIComponent::on_click on component i
OnClick(i, click_kind, pos) ==
    LET r == UIOnClick(components[i], click_kind, pos)
        n == Len(components)
    IN  /\ components' = [components EXCEPT ![i] = r.u]
        /\ last' = Record("on_click", i, click_kind, pos,
                          Only(n, i, <<ClickCall(click_kind, pos)>>, <<>>),
                          Only(n, i, r.cb, 0), NoRets(n), Zeros(n))
        /\ prev' = Summary(last)
        /\ UNCHANGED concVars
        /\ UNCHANGED extVars

\* UIComponent::on_click_outside on component i
OnClickOutside(i) ==
    LET n == Len(components)
    IN  /\ components' = [components EXCEPT ![i] = UIOnClickOutside(components[i])]
        /\ last' = Record("on_click_outside", i, "", <<>>,
                          Only(n, i, <<OutsideCall>>, <<>>),
                          Zeros(n), NoRets(n), Zeros(n))
        /\ prev' = Summary(last)
        /\ UNCHANGED concVars
        /\ UNCHANGED extVars

\* UIComponent::on_hover on component i
OnHover(i, mode, pos) ==
    LET n == Len(components)
    IN  /\ components' = [components EXCEPT ![i] = UIOnHover(components[i], mode, pos)]
        /\ last' = Record("on_hover", i, mode, pos,
                          Only(n, i, <<HoverCall(mode, pos)>>, <<>>),
                          Zeros(n), NoRets(n), Zeros(n))
        /\ prev' = Summary(last)
        /\ UNCHANGED concVars
        /\ UNCHANGED extVars

\* UIComponent::build_model on component i
BuildModel(i) ==
    LET r == InnerBuildModel(components[i])
        n == Len(components)
    IN  /\ components' = [components EXCEPT ![i] = r.u]
        /\ last' = Record("build_model", i, "", <<>>, NoCalls(n), Zeros(n),
                          Only(n, i, r.ret, NoModel), Only(n, i, r.built, 0))
        /\ prev' = Summary(last)
        /\ UNCHANGED concVars
        /\ UNCHANGED extVars

\* the container-level operations
Next ==
    \/ \E component \in Templates : Add(component)
    \/ \E pos \in Points, click_kind \in ClickKinds : OnMouseClick(pos, click_kind)
    \/ \E pos \in Points : OnMouseHover(pos)
    \/ BuildModels

Spec == Init /\ [][Next]_vars

\* the operations of one UIComponent, on a container holding one component
InitUI ==
    \E component \in Templates :
        /\ components = ContainerAdd(<<>>, component)
        /\ last = Record("add", 1, "", <<>>, NoCalls(1), Zeros(1), NoRets(1), <<1>>)
        /\ prev = Summary(Record("new", 0, "", <<>>, <<>>, <<>>, <<>>, <<>>))
        /\ ConcIdle
        /\ ExtIdle

NextUI ==
    \/ \E i \in 1..Len(components), click_kind \in ClickKinds, pos \in Points :
          OnClick(i, click_kind, pos)
    \/ \E i \in 1..Len(components) : OnClickOutside(i)
    \/ \E i \in 1..Len(components), mode \in HoverModes, pos \in Points :
          OnHover(i, mode, pos)
    \/ \E i \in 1..Len(components) : BuildModel(i)

SpecUI == InitUI /\ [][NextUI]_vars

\* ------------------------------------- concurrent calls on one UIComponent
\* Each call is split at its accesses to shared state: the component behind
\* its RwLock, the dirty flag (atomic) and precomputed_model behind its Mutex.
\* A lock is taken and released within one statement, so each locked region
\* is one step.
MaxMutations == 2

ConcPos == {<<GridMax, GridMax>>}

MutatingCalls ==
    {ClickCall(k, p) : k \in ClickKinds, p \in ConcPos}
        \cup {OutsideCall}
        \cup {HoverCall(m, p) : m \in HoverModes, p \in ConcPos}

\* the Component method a UIComponent mutating call runs under the write lock
ApplyCall(c, call) ==
    CASE call.fn = "on_click" -> ComponentOnClick(c, call.arg, call.pos).c
      [] call.fn = "on_click_outside" -> ComponentOnClickOutside(c)
      [] call.fn = "on_hover" -> ComponentOnHover(c, call.arg, call.pos)

Max(a, b) == IF a >= b THEN a ELSE b

\* the geometries of the component states from version v on
GeometriesSince(h, v) == {ComponentBuildModel(h[k]) : k \in v..Len(h)}

InitConc ==
    \E component \in Templates :
        /\ components = ContainerAdd(<<>>, component)
        /\ last = Record("add", 1, "", <<>>, NoCalls(1), Zeros(1), NoRets(1), <<1>>)
        /\ prev = Summary(Record("new", 0, "", <<>>, <<>>, <<>>, <<>>, <<>>))
        /\ pc = [t \in Threads |-> "idle"]
        /\ loc = [t \in Threads |-> IdleLoc]
        /\ hist = <<component>>
        /\ pend = [ver |-> 0, cleanVer |-> 0]
        /\ obs = [b \in Builders |-> IdleObs]
        /\ ExtIdle

\* UIComponent::on_click / on_click_outside / on_hover is entered
MutCall(t, call) ==
    /\ pc[t] = "idle"
    /\ Len(hist) <= MaxMutations
    /\ pc' = [pc EXCEPT ![t] = "write"]
    /\ loc' = [loc EXCEPT ![t] = [IdleLoc EXCEPT
                   !.op = call,
                   !.ovl = \E b \in Builders : pc[b] # "idle"]]
    /\ UNCHANGED <<components, last, prev, hist, pend, obs>>
    /\ UNCHANGED extVars

\* self.inner.inner.write().unwrap().on_...(..): the Component method runs
MutWrite(t) ==
    /\ pc[t] = "write"
    /\ components' = [components EXCEPT ![1].inner = ApplyCall(@, loc[t].op)]
    /\ hist' = Append(hist, components'[1].inner)
    /\ loc' = [loc EXCEPT ![t].ver = Len(hist) + 1]
    /\ pc' = [pc EXCEPT ![t] = "make_dirty"]
    /\ UNCHANGED <<last, prev, pend, obs>>
    /\ UNCHANGED extVars

\* self.inner.make_dirty(), after which the call returns
MutDirty(t) ==
    /\ pc[t] = "make_dirty"
    /\ components' = [components EXCEPT ![1] = make_dirty(@)]
    /\ pend' = [ver |-> Max(pend.ver, loc[t].ver),
                cleanVer |-> IF loc[t].ovl THEN pend.cleanVer
                             ELSE Max(pend.cleanVer, loc[t].ver)]
    /\ pc' = [pc EXCEPT ![t] = "idle"]
    /\ loc' = [loc EXCEPT ![t] = IdleLoc]
    /\ UNCHANGED <<last, prev, hist, obs>>
    /\ UNCHANGED extVars

\* UIComponent::build_model is entered
BuildCall(t) ==
    /\ pc[t] = "idle"
    /\ pc' = [pc EXCEPT ![t] = "fetch"]
    /\ obs' = [obs EXCEPT ![t] = [IdleObs EXCEPT
                   !.mustSee = pend.ver, !.mustSeeClean = pend.cleanVer]]
    /\ pend' = [ver |-> 0, cleanVer |-> 0]
    /\ loc' = [l \in Threads |->
                  IF l \in Mutators /\ pc[l] # "idle"
                  THEN [loc[l] EXCEPT !.ovl = TRUE] ELSE loc[l]]
    /\ UNCHANGED <<components, last, prev, hist>>
    /\ UNCHANGED extVars

\* self.dirty.fetch_and(false, AcqRel)
BuildFetch(t) ==
    /\ pc[t] = "fetch"
    /\ components' = [components EXCEPT ![1].dirty = FALSE]
    /\ pc' = [pc EXCEPT ![t] = IF components[1].dirty THEN "build" ELSE "read"]
    /\ UNCHANGED <<last, prev, loc, hist, pend, obs>>
    /\ UNCHANGED extVars

\* let model = self.inner.write().unwrap().build_model()
BuildBuild(t) ==
    /\ pc[t] = "build"
    /\ loc' = [loc EXCEPT ![t].model = ComponentBuildModel(components[1].inner)]
    /\ obs' = [obs EXCEPT ![t].built = 1]
    /\ pc' = [pc EXCEPT ![t] = "store"]
    /\ UNCHANGED <<components, last, prev, hist, pend>>
    /\ UNCHANGED extVars

Returned(o, model, h) ==
    [o EXCEPT !.done = TRUE,
              !.ret = model,
              !.fresh = (o.mustSee > 0 => model \in GeometriesSince(h, o.mustSee)),
              !.freshClean =
                  (o.mustSeeClean > 0 => model \in GeometriesSince(h, o.mustSeeClean))]

\* *self.precomputed_model.lock().unwrap() = model.clone(); model
BuildStore(t) ==
    /\ pc[t] = "store"
    /\ components' = [components EXCEPT ![1].precomputed_model = loc[t].model]
    /\ obs' = [obs EXCEPT ![t] = Returned(@, loc[t].model, hist)]
    /\ pc' = [pc EXCEPT ![t] = "idle"]
    /\ loc' = [loc EXCEPT ![t] = IdleLoc]
    /\ UNCHANGED <<last, prev, hist, pend>>
    /\ UNCHANGED extVars

\* self.precomputed_model.lock().unwrap().clone()
BuildRead(t) ==
    /\ pc[t] = "read"
    /\ obs' = [obs EXCEPT ![t] = Returned(@, components[1].precomputed_model, hist)]
    /\ pc' = [pc EXCEPT ![t] = "idle"]
    /\ UNCHANGED <<components, last, prev, loc, hist, pend>>
    /\ UNCHANGED extVars

NextConc ==
    \/ \E t \in Mutators, call \in MutatingCalls : MutCall(t, call)
    \/ \E t \in Mutators : MutWrite(t)
    \/ \E t \in Mutators : MutDirty(t)
    \/ \E t \in Builders : BuildCall(t)
    \/ \E t \in Builders : BuildFetch(t)
    \/ \E t \in Builders : BuildBuild(t)
    \/ \E t \in Builders : BuildStore(t)
    \/ \E t \in Builders : BuildRead(t)

SpecConc == InitConc /\ [][NextConc]_vars

\* --------------------------------------------- geometry of single rectangles
\* Every rectangle of the grid (any corner, any extent, also empty and past
\* the unit square, as the builders validate nothing) under every Coloring.
AtlasUvs == {<<0, 0>>, <<5, 7>>}

GeomColorings ==
    {PerVertColor, SimpleTex(1)} \cup {AtlasTex(1, uv) : uv \in AtlasUvs}

GeomBoxes ==
    {ColorBoxNew(pos, width, height, coloring) :
        pos \in Coords \X Coords, width \in Coords, height \in Coords,
        coloring \in GeomColorings}
    \cup
    {TextBoxNew(pos, width, height, coloring) :
        pos \in Coords \X Coords, width \in Coords, height \in Coords,
        coloring \in GeomColorings}

WidgetsIdle ==
    /\ components = <<>>
    /\ last = Record("new", 0, "", <<>>, <<>>, <<>>, <<>>, <<>>)
    /\ prev = Summary(last)
    /\ ConcIdle

InitGeom ==
    /\ WidgetsIdle
    /\ geom \in {[stage |-> "new", component |-> c, model |-> NoModel] :
                    c \in GeomBoxes}
    /\ frame = Unused
    /\ app = Unused
    /\ reg = Unused
    /\ cam = Unused
    /\ dims = Unused
    /\ lk = Unused

\* Button::new around the TextBox
GeomButtonNew ==
    /\ geom.stage = "new"
    /\ geom.component.kind = "TextBox"
    /\ geom' = [geom EXCEPT !.component = ButtonNew(@)]
    /\ UNCHANGED <<uiVars, concVars, frame, app, reg, cam, dims, lk>>

\* Button::on_hover
GeomOnHover(mode, pos) ==
    /\ geom.stage = "new"
    /\ geom.component.kind = "Button"
    /\ geom' = [geom EXCEPT !.component = ComponentOnHover(@, mode, pos)]
    /\ UNCHANGED <<uiVars, concVars, frame, app, reg, cam, dims, lk>>

\* Button::on_click
GeomOnClick(click_kind, pos) ==
    /\ geom.stage = "new"
    /\ geom.component.kind = "Button"
    /\ geom' = [geom EXCEPT !.component = ComponentOnClick(@, click_kind, pos).c]
    /\ UNCHANGED <<uiVars, concVars, frame, app, reg, cam, dims, lk>>

\* Component::build_model on the ColorBox, TextBox or Button
GeomBuildModel ==
    /\ geom.stage = "new"
    /\ geom' = [geom EXCEPT !.stage = "built",
                            !.model = ComponentBuildModel(geom.component)]
    /\ UNCHANGED <<uiVars, concVars, frame, app, reg, cam, dims, lk>>

NextGeom ==
    \/ GeomButtonNew
    \/ \E mode \in HoverModes, pos \in Points : GeomOnHover(mode, pos)
    \/ \E click_kind \in ClickKinds, pos \in Points : GeomOnClick(click_kind, pos)
    \/ GeomBuildModel

SpecGeom == InitGeom /\ [][NextGeom]_vars

\* ------------------------------------------------- Renderer::render, one call
MaxUiModels == 2
MaxRegistered == 2
MaxInstances == 2

GRAYSCALE_CONV_FLAG == 1

\* the UI quads a frame may be given: per-vertex colour, a standalone
\* texture, two allocations of atlas 1 and one allocation of atlas 2
FrameBoxes ==
    { TextBoxNew(<<0, 0>>, 1, 1, PerVertColor),
      TextBoxNew(<<1, 1>>, 1, 1, SimpleTex(1)),
      TextBoxNew(<<0, 1>>, 1, 1, AtlasTex(1, <<0, 0>>)),
      ColorBoxNew(<<1, 0>>, 2, 1, AtlasTex(1, <<5, 7>>)),
      ColorBoxNew(<<2, 2>>, 1, 1, AtlasTex(2, <<0, 0>>)) }

UiModels == {ComponentBuildModel(c) : c \in FrameBoxes}

SeqsUpTo(S, n) == UNION {[1..k -> S] : k \in 0..n}

\* the concatenation of a sequence of sequences
RECURSIVE Concat(_)
Concat(ss) == IF ss = <<>> THEN <<>> ELSE Head(ss) \o Concat(Tail(ss))

\* model::Mesh, without its GPU buffers
Mesh(material, num_elements) ==
    [material |-> material, num_elements |-> num_elements]

\* UploadedModel: a one-mesh model, a two-mesh, two-material model, the
\* model Model::load_from returns for an OBJ without materials (the material
\* of its mesh is material_id.unwrap_or(0)), and a two-mesh model whose second
\* mesh names a material past its two
UploadedModels ==
    { [meshes |-> <<Mesh(0, 6)>>, materials |-> 1],
      [meshes |-> <<Mesh(0, 6), Mesh(1, 36)>>, materials |-> 2],
      [meshes |-> <<Mesh(0, 36)>>, materials |-> 0],
      [meshes |-> <<Mesh(0, 6), Mesh(2, 36)>>, materials |-> 2] }

\* the instances argument: the k-th instance is tagged k (its transform);
\* model ids are usize values, MaxRegistered is never a registered handle
InstanceLists ==
    {[k \in 1..Len(ids) |-> [model_id |-> ids[k], instance |-> k]] :
        ids \in SeqsUpTo(0..MaxRegistered, MaxInstances)}

\* the glyph brushes Renderer::new creates
NumGlyphs == 1

\* the glyph brushes a Renderer holds at most: add_glyph is not called again
\* once there are MaxGlyphs of them
MaxGlyphs == 2

\* k times the step s
Repeat(s, k) == [j \in 1..k |-> s]

\* the conversions of the partition loop
GrayscaleConv(vert) ==
    "grayscale_conv" \in DOMAIN vert /\ vert.grayscale_conv

ToColorVertex(vert) == [pos |-> vert.pos, color |-> vert.color]

ToAbsoluteTextureVertex(vert) ==
    [pos |-> vert.pos, alpha |-> vert.alpha, uv |-> vert.uv.v,
     color_scale_factor |-> vert.color_scale_factor,
     meta |-> IF GrayscaleConv(vert) THEN GRAYSCALE_CONV_FLAG ELSE 0]

ToRelativeTextureVertex(vert) ==
    [pos |-> vert.pos, alpha |-> vert.alpha, uv |-> vert.uv.v,
     color_scale_factor |-> vert.color_scale_factor,
     meta |-> IF GrayscaleConv(vert) THEN GRAYSCALE_CONV_FLAG ELSE 0]

\* no vertex of the model reaches an unreachable!() arm of the partition loop
VariantMatches(model) ==
    \A i \in 1..Len(model.vertices) :
        LET vert == model.vertices[i]
        IN  CASE model.color_src.tag = "PerVert" -> vert.tag = "Color"
              [] model.color_src.tag = "Atlas" ->
                    vert.tag = "Texture" /\ vert.uv.kind = "Absolute"
              [] model.color_src.tag = "Tex" ->
                    vert.tag = "Texture" /\ vert.uv.kind = "Relative"

EmptyBuckets ==
    [panicked |-> FALSE, atlas_models |-> <<>>, color_models |-> <<>>,
     texture_models |-> <<>>]

\* mutant: a second model of an atlas replaces the vertices of the first
AtlasInsertReplace(atlas_models, id, vertices) ==
    [k \in DOMAIN atlas_models \cup {id} |->
        IF k = id THEN vertices ELSE atlas_models[k]]

\* atlas_models.get_mut(id) ... extend, else insert
AtlasInsert(atlas_models, id, vertices) ==
    IF id \in DOMAIN atlas_models
    THEN [atlas_models EXCEPT ![id] = @ \o vertices]
    ELSE [k \in DOMAIN atlas_models \cup {id} |->
            IF k = id THEN vertices ELSE atlas_models[k]]

\* the loop over ui_models that fills the three buckets
RECURSIVE Partition(_, _, _)
Partition(buckets, ui_models, idx) ==
    IF idx > Len(ui_models) THEN buckets
    ELSE LET model == ui_models[idx]
             n == Len(model.vertices)
         IN  IF ~VariantMatches(model)
             THEN [buckets EXCEPT !.panicked = TRUE]
             ELSE CASE model.color_src.tag = "PerVert" ->
                         Partition(
                             [buckets EXCEPT !.color_models =
                                 @ \o [i \in 1..n |-> ToColorVertex(model.vertices[i])]],
                             ui_models, idx + 1)
                    [] model.color_src.tag = "Atlas" ->
                         Partition(
                             [buckets EXCEPT !.atlas_models =
                                 AtlasInsert(@, model.color_src.id,
                                     [i \in 1..n |->
                                        ToAbsoluteTextureVertex(model.vertices[i])])],
                             ui_models, idx + 1)
                    [] model.color_src.tag = "Tex" ->
                         Partition(
                             [buckets EXCEPT !.texture_models =
                                 Append(@, [tex |-> model.color_src.id,
                                            vertices |->
                                               [i \in 1..n |->
                                                  ToRelativeTextureVertex(model.vertices[i])]])],
                             ui_models, idx + 1)

NoBindGroup == [kind |-> "none", id |-> 0]

\* pass 1: the colour bucket with the flat-colour pipeline, then every entry
\* of texture_models with the textured pipeline and its own bind group
Pass1(buckets) ==
    [load |-> "Clear", depth |-> "None", camera_bind_groups |-> 0,
     draws |->
        << [pipeline |-> "color_ui", bind_group |-> NoBindGroup,
            vertices |-> buckets.color_models] >>
        \o [k \in 1..Len(buckets.texture_models) |->
              [pipeline |-> "tex_ui",
               bind_group |-> [kind |-> "tex", id |-> buckets.texture_models[k].tex],
               vertices |-> buckets.texture_models[k].vertices]]]

\* every instance indexes instance_buffer inside its bounds
InstancesInRange(models, instances) ==
    \A k \in 1..Len(instances) : instances[k].model_id < Len(models)

\* instance_buffer: per registered model the instances that carry its id
InstanceBuffer(models, instances) ==
    [id \in 0..(Len(models) - 1) |->
        LET own == SelectSeq(instances, LAMBDA x : x.model_id = id)
        IN  [k \in 1..Len(own) |-> own[k].instance]]

DiffInstances(instances) ==
    {instances[k].model_id : k \in 1..Len(instances)}

\* model.model.materials[mesh.material] in the loop of pass 2: every mesh of
\* every model that has an instance names a material the model has
MaterialsInRange(models, instances) ==
    \A id \in DiffInstances(instances) :
        \A k \in 1..Len(models[id + 1].meshes) :
            models[id + 1].meshes[k].material < models[id + 1].materials

\* mutant: every draw covers all instances of the frame
InstanceCountAll(models, instances, model_id) == Len(instances)

\* the instance range of the draws of one model
InstanceCount(models, instances, model_id) ==
    Len(InstanceBuffer(models, instances)[model_id])

\* mutant: pass 2 clears the colour attachment too
Pass2ClearsColor(models, instances) ==
    [load |-> "Clear", depth |-> "Clear", camera_bind_groups |-> 1,
     draws |->
        [id \in DiffInstances(instances) |->
            [k \in 1..Len(models[id + 1].meshes) |->
                [pipeline |-> "tex_model",
                 material |-> models[id + 1].meshes[k].material,
                 num_elements |-> models[id + 1].meshes[k].num_elements,
                 instances |-> InstanceCount(models, instances, id)]]]]

\* pass 2: the camera bind group once, then for every id of diff_instances
\* (a HashSet: each id once, in no particular order) one indexed instanced
\* draw per mesh
Pass2(models, instances) ==
    [load |-> "Load", depth |-> "Clear", camera_bind_groups |-> 1,
     draws |->
        [id \in DiffInstances(instances) |->
            [k \in 1..Len(models[id + 1].meshes) |->
                [pipeline |-> "tex_model",
                 material |-> models[id + 1].meshes[k].material,
                 num_elements |-> models[id + 1].meshes[k].num_elements,
                 instances |-> InstanceCount(models, instances, id)]]]]

NotEncoded ==
    [ran |-> FALSE, panicked |-> FALSE, atlas_updates |-> 0,
     buckets |-> EmptyBuckets, passes |-> <<>>, text_flushes |-> 0,
     steps |-> <<>>]

\* mutant: the queued text is flushed before the 3-D pass is encoded
CallbackStepsTextFirst(partitioned, in_range, flushed) ==
    <<"atlas_update">>
    \o (IF partitioned THEN <<"ui_color_draw", "ui_tex_draws">> ELSE <<>>)
    \o (IF partitioned /\ in_range THEN Repeat("text_flush", flushed) ELSE <<>>)
    \o (IF partitioned /\ in_range THEN <<"pass3d">> ELSE <<>>)

\* the steps the closure completes, in the order of its statements: the
\* partition loop can panic after the atlas update, the instance_buffer
\* indexing and the materials indexing of pass 2 after pass 1 (in_range is
\* FALSE), the unwrap of a draw_queued after pass 2 and the
\* flushes of the brushes before it; flushed is the number of glyph brushes
\* whose draw_queued returned Ok
CallbackSteps(partitioned, in_range, flushed) ==
    <<"atlas_update">>
    \o (IF partitioned THEN <<"ui_color_draw", "ui_tex_draws">> ELSE <<>>)
    \o (IF partitioned /\ in_range THEN <<"pass3d">> ELSE <<>>)
    \o (IF partitioned /\ in_range THEN Repeat("text_flush", flushed) ELSE <<>>)

\* the closure given to State::render.  glyphs is the number of glyph
\* brushes of the renderer; failing is the brush, in the order of the glyph
\* list, whose GlyphBrush::draw_queued returns Err (0: none does): the
\* closure unwraps the result, so the brushes before it have been flushed
\* and the others have not
RenderCallback(ui_models, instances, models, glyphs, failing) ==
    LET buckets == Partition(EmptyBuckets, ui_models, 1)
        flushed == IF failing \in 1..glyphs THEN failing - 1 ELSE glyphs
    IN  IF buckets.panicked
        THEN [ran |-> TRUE, panicked |-> TRUE, atlas_updates |-> 1,
              buckets |-> buckets, passes |-> <<>>, text_flushes |-> 0,
              steps |-> CallbackSteps(FALSE, FALSE, 0)]
        ELSE IF \/ ~InstancesInRange(models, instances)
                \/ ~MaterialsInRange(models, instances)
        THEN [ran |-> TRUE, panicked |-> TRUE, atlas_updates |-> 1,
              buckets |-> buckets, passes |-> <<Pass1(buckets)>>,
              text_flushes |-> 0,
              steps |-> CallbackSteps(TRUE, FALSE, 0)]
        ELSE [ran |-> TRUE, panicked |-> failing \in 1..glyphs,
              atlas_updates |-> 1, buckets |-> buckets,
              passes |-> <<Pass1(buckets), Pass2(models, instances)>>,
              text_flushes |-> flushed,
              steps |-> CallbackSteps(TRUE, TRUE, flushed)]

\* what the environment does to one frame: the surface texture cannot be
\* acquired (State::render returns Err before it runs the closure),
\* draw_queued fails inside the closure, or neither
Outcomes == {"Ok", "AcquireError", "DrawQueuedError"}

\* Renderer::render up to the return of State::render: the closure if the
\* surface texture was acquired, and the unwrap of the result; failing is the
\* brush whose draw_queued fails when the outcome is DrawQueuedError.  The
\* frame is submitted and presented, and no staging belt is recalled yet;
\* brushes is the number of glyph brushes the flush loop ran over
RenderPresent(ui_models, instances, models, glyphs, outcome, failing) ==
    LET encoded == IF outcome = "AcquireError" THEN NotEncoded
                   ELSE RenderCallback(ui_models, instances, models, glyphs,
                                       IF outcome = "DrawQueuedError"
                                       THEN failing ELSE 0)
        panicked == outcome = "AcquireError" \/ encoded.panicked
    IN  [stage |-> IF panicked THEN "done" ELSE "presented",
         ui_models |-> ui_models, instances |-> instances,
         models |-> models, glyphs |-> glyphs, brushes |-> glyphs,
         outcome |-> outcome,
         failing |-> IF outcome = "DrawQueuedError" THEN failing ELSE 0,
         encoded |-> encoded,
         panicked |-> panicked, presented |-> ~panicked,
         recalls |-> 0,
         steps |-> encoded.steps \o (IF panicked THEN <<>> ELSE <<"submit">>)]

\* the last loop of Renderer::render: under the glyphs lock, taken anew, the
\* staging belt of every glyph brush the renderer has by then is recalled
RecallBelts(f, glyphs) ==
    [f EXCEPT !.stage = "done", !.glyphs = glyphs, !.recalls = glyphs,
              !.steps = @ \o <<"recall">>]

\* Renderer::render with no add_glyph of another thread between its two
\* loops over the glyph brushes
RenderFrame(ui_models, instances, models, glyphs, outcome, failing) ==
    LET f == RenderPresent(ui_models, instances, models, glyphs, outcome, failing)
    IN  IF f.panicked THEN f ELSE RecallBelts(f, glyphs)

InitFrame ==
    /\ WidgetsIdle
    /\ geom = Unused
    /\ frame \in {[stage |-> "submitted", ui_models |-> u, instances |-> i,
                   models |-> m, glyphs |-> NumGlyphs, brushes |-> 0,
                   outcome |-> "",
                   failing |-> 0, encoded |-> NotEncoded,
                   panicked |-> FALSE, presented |-> FALSE, recalls |-> 0,
                   steps |-> <<>>, glyph_ids |-> <<>>] :
                    u \in SeqsUpTo(UiModels, MaxUiModels),
                    i \in InstanceLists,
                    m \in SeqsUpTo(UploadedModels, MaxRegistered)}
    /\ app = Unused
    /\ reg = Unused
    /\ cam = Unused
    /\ dims = Unused
    /\ lk = Unused

\* Renderer::add_glyph: the brush is pushed to the glyph list, and its index
\* in the list is returned.  It takes the glyphs lock, which Renderer::render
\* holds during its flush loop and again during its recall loop: a call of
\* another thread runs before the flush loop or between the two loops
AddGlyph ==
    /\ frame.stage \in {"submitted", "presented"}
    /\ frame.glyphs < MaxGlyphs
    /\ frame' = [frame EXCEPT !.glyphs = @ + 1,
                              !.glyph_ids = Append(@, frame.glyphs)]
    /\ UNCHANGED <<uiVars, concVars, geom, app, reg, cam, dims, lk>>

\* Renderer::render up to the return of State::render
Render(outcome, failing) ==
    /\ frame.stage = "submitted"
    /\ failing \in 1..frame.glyphs
    /\ outcome # "DrawQueuedError" => failing = 1
    /\ frame' = [glyph_ids |-> frame.glyph_ids]
                @@ RenderPresent(frame.ui_models, frame.instances, frame.models,
                                 frame.glyphs, outcome, failing)
    /\ UNCHANGED <<uiVars, concVars, geom, app, reg, cam, dims, lk>>

\* Renderer::render, the recall loop
Recall ==
    /\ frame.stage = "presented"
    /\ frame' = RecallBelts(frame, frame.glyphs)
    /\ UNCHANGED <<uiVars, concVars, geom, app, reg, cam, dims, lk>>

NextFrame ==
    \/ AddGlyph
    \/ \E outcome \in Outcomes, failing \in 1..MaxGlyphs : Render(outcome, failing)
    \/ Recall

SpecFrame == InitFrame /\ [][NextFrame]_vars

\* ------------------------------------------- Renderer::add_model, by threads
\* The registry is Renderer.models behind its Mutex.  add_model takes the
\* lock first and holds it until it returns, so a call is three steps: the
\* lock is taken, the model is pushed, the handle is computed and the guard
\* dropped.  arg[t].k counts the calls in the order they took the lock.
MaxAddModels == 3

Callers == {"a1", "a2"}

ModelColorings == {"Direct", "Tex"}

\* the UploadedModel a call pushes; the bind group exists for a texture only
Uploaded(model, coloring) ==
    [model |-> model, coloring |-> coloring, bind_group |-> coloring = "Tex"]

NoArg == [uploaded |-> Unused, k |-> 0]

InitReg ==
    /\ WidgetsIdle
    /\ geom = Unused
    /\ frame = Unused
    /\ app = Unused
    /\ reg = [models |-> <<>>, lock |-> "none",
              pc |-> [t \in Callers |-> "idle"],
              arg |-> [t \in Callers |-> NoArg],
              calls |-> 0, locked |-> 0, returned |-> <<>>]
    /\ cam = Unused
    /\ dims = Unused
    /\ lk = Unused

\* add_model is entered and waits for self.models.lock()
AddModelCall(t, model, coloring) ==
    /\ reg.pc[t] = "idle"
    /\ reg.calls < MaxAddModels
    /\ reg' = [reg EXCEPT !.pc[t] = "waiting",
                          !.arg[t] = [uploaded |-> Uploaded(model, coloring), k |-> 0],
                          !.calls = @ + 1]
    /\ UNCHANGED <<uiVars, concVars, geom, frame, app, cam, dims, lk>>

\* let mut models = self.models.lock().unwrap()
AddModelLock(t) ==
    /\ reg.pc[t] = "waiting"
    /\ reg.lock = "none"
    /\ reg' = [reg EXCEPT !.pc[t] = "locked", !.lock = t,
                          !.arg[t].k = reg.locked, !.locked = @ + 1]
    /\ UNCHANGED <<uiVars, concVars, geom, frame, app, cam, dims, lk>>

\* models.push(UploadedModel { .. })
AddModelPush(t) ==
    /\ reg.pc[t] = "locked"
    /\ reg' = [reg EXCEPT !.pc[t] = "pushed",
                          !.models = Append(@, reg.arg[t].uploaded)]
    /\ UNCHANGED <<uiVars, concVars, geom, frame, app, cam, dims, lk>>

\* mutant: the handle is the length after the push
add_model_handle_len(models) == Len(models)

\* models.len() - 1
add_model_handle(models) == Len(models) - 1

\* the handle is returned and the guard dropped
AddModelReturn(t) ==
    /\ reg.pc[t] = "pushed"
    /\ reg' = [reg EXCEPT !.pc[t] = "idle", !.lock = "none",
                          !.arg[t] = NoArg,
                          !.returned =
                              Append(@, [thread |-> t,
                                         handle |-> add_model_handle(reg.models),
                                         uploaded |-> reg.arg[t].uploaded,
                                         k |-> reg.arg[t].k])]
    /\ UNCHANGED <<uiVars, concVars, geom, frame, app, cam, dims, lk>>

NextReg ==
    \/ \E t \in Callers, model \in UploadedModels, coloring \in ModelColorings :
          AddModelCall(t, model, coloring)
    \/ \E t \in Callers : AddModelLock(t)
    \/ \E t \in Callers : AddModelPush(t)
    \/ \E t \in Callers : AddModelReturn(t)

SpecReg == InitReg /\ [][NextReg]_vars

\* ------------------------------------------------------- CameraController
\* Angles are integers in units of 10^-7 rad: camera.pitch, and the products
\* rotate * sensitivity * dt, with sensitivity and dt (seconds) whole numbers.
\* Camera.position and Camera.yaw are integrated through sin/cos of real
\* angles and are read by no statement that writes the controller or the
\* pitch; they are left out.
SAFE_FRAC_PI_2 == 15706963

RotateStep == 5000000

LargeRotate == 1000000000

Keys ==
    {"W", "Up", "S", "Down", "A", "Left", "D", "Right", "Space", "LShift",
     "Escape"}

ElementStates == {"Pressed", "Released"}

AmountFields ==
    {"amount_left", "amount_right", "amount_forward", "amount_backward",
     "amount_up", "amount_down"}

\* the match arms of process_keyboard
KeyAmount(key) ==
    CASE key \in {"W", "Up"} -> "amount_forward"
      [] key \in {"S", "Down"} -> "amount_backward"
      [] key \in {"A", "Left"} -> "amount_left"
      [] key \in {"D", "Right"} -> "amount_right"
      [] key = "Space" -> "amount_up"
      [] key = "LShift" -> "amount_down"
      [] OTHER -> "none"

\* (mouse_dx, mouse_dy) of process_mouse
MouseDeltas ==
    { <<RotateStep, RotateStep>>, <<RotateStep, 0 - RotateStep>>,
      <<0, LargeRotate>>, <<0, 0 - LargeRotate>> }

\* MouseScrollDelta: LineDelta(_, scroll) or PixelDelta { y: scroll }
ScrollDeltas == {[tag |-> "LineDelta", scroll |-> 1],
                 [tag |-> "PixelDelta", scroll |-> 0 - 30]}

Sensitivities == {1, 2}

Dts == {0, 1}

\* Camera::new takes any pitch
InitPitches == {0, 20000000}

CameraControllerNew(sensitivity) ==
    [amount_left |-> 0, amount_right |-> 0, amount_forward |-> 0,
     amount_backward |-> 0, amount_up |-> 0, amount_down |-> 0,
     rotate_horizontal |-> 0, rotate_vertical |-> 0, scroll |-> 0,
     sensitivity |-> sensitivity]

process_keyboard(c, key, state) ==
    LET amount == IF state = "Pressed" THEN 1 ELSE 0
    IN  IF KeyAmount(key) = "none"
        THEN [c |-> c, ret |-> FALSE]
        ELSE [c |-> [c EXCEPT ![KeyAmount(key)] = amount], ret |-> TRUE]

process_mouse(c, mouse_dx, mouse_dy) ==
    [c EXCEPT !.rotate_horizontal = mouse_dx, !.rotate_vertical = mouse_dy]

process_scroll(c, delta) ==
    [c EXCEPT !.scroll = 0 - (IF delta.tag = "LineDelta"
                              THEN delta.scroll * 100
                              ELSE delta.scroll)]

\* mutant: the pitch is left where the rotation put it
clamp_pitch_none(pitch) == pitch

\* "Keep the camera's angle from going too high/low."
clamp_pitch(pitch) ==
    IF pitch < 0 - SAFE_FRAC_PI_2 THEN 0 - SAFE_FRAC_PI_2
    ELSE IF pitch > SAFE_FRAC_PI_2 THEN SAFE_FRAC_PI_2
    ELSE pitch

\* update_camera: the new controller and the new camera.pitch
update_camera(c, pitch, dt) ==
    [c |-> [c EXCEPT !.scroll = 0, !.rotate_horizontal = 0,
                     !.rotate_vertical = 0],
     pitch |-> clamp_pitch(pitch + (0 - c.rotate_vertical) * c.sensitivity * dt)]

InitCam ==
    /\ WidgetsIdle
    /\ geom = Unused
    /\ frame = Unused
    /\ app = Unused
    /\ reg = Unused
    /\ dims = Unused
    /\ lk = Unused
    /\ cam \in {[controller |-> CameraControllerNew(s), pitch |-> p,
                 last |-> "new"] : s \in Sensitivities, p \in InitPitches}

ProcessKeyboard(key, state) ==
    /\ cam' = [cam EXCEPT !.controller = process_keyboard(@, key, state).c,
                          !.last = "process_keyboard"]
    /\ UNCHANGED <<uiVars, concVars, geom, frame, app, reg, dims, lk>>

ProcessMouse(mouse_dx, mouse_dy) ==
    /\ cam' = [cam EXCEPT !.controller = process_mouse(@, mouse_dx, mouse_dy),
                          !.last = "process_mouse"]
    /\ UNCHANGED <<uiVars, concVars, geom, frame, app, reg, dims, lk>>

ProcessScroll(delta) ==
    /\ cam' = [cam EXCEPT !.controller = process_scroll(@, delta),
                          !.last = "process_scroll"]
    /\ UNCHANGED <<uiVars, concVars, geom, frame, app, reg, dims, lk>>

UpdateCamera(dt) ==
    /\ cam' = [controller |-> update_camera(cam.controller, cam.pitch, dt).c,
               pitch |-> update_camera(cam.controller, cam.pitch, dt).pitch,
               last |-> "update_camera"]
    /\ UNCHANGED <<uiVars, concVars, geom, frame, app, reg, dims, lk>>

NextCam ==
    \/ \E key \in Keys, state \in ElementStates : ProcessKeyboard(key, state)
    \/ \E d \in MouseDeltas : ProcessMouse(d[1], d[2])
    \/ \E delta \in ScrollDeltas : ProcessScroll(delta)
    \/ \E dt \in Dts : UpdateCamera(dt)

SpecCam == InitCam /\ [][NextCam]_vars

\* ------------------------------------------------- the event loop of main
\* One step is one event handled by the closure given to event_loop.run.
\* size is the size the surface is configured with (State), dimensions is
\* Renderer.dimensions, depth_tex the size of the texture in
\* Renderer.depth_tex, models is Game.models (each instance tagged with the
\* frame whose tick appended it), registry is Renderer.models.  ScreenSystem
\* is taken to run the tick of the screen on top and to return the models of
\* its container, and to hand on_mouse_hover and on_mouse_click to that
\* container; characters is the number of characters Game::new loaded, login
\* the container of the Login screen, to which Login::on_active added a
\* Button for each of them, mouse_pos the variable of that name.  A panic
\* ends the loop: running becomes FALSE.
MaxFrames == 2

NUM_INSTANCES_PER_ROW == 10

WindowSizes == {<<800, 600>>, <<1024, 768>>}

InitialSize == <<800, 600>>

\* the characters load_characters returns: at most MaxCharacters, none when
\* characters.json is missing or lists none
MaxCharacters == 2

\* The coordinates of the Login screen with n characters are kept in units
\* of 1 / LoginUnit(n), in which entry_offset = 1 / (n + 3) is 10, the width
\* 0.1 is n + 3 and 1.5 * entry_offset is 15.
LoginUnit(n) == 10 * (n + 3)

\* Login::on_active: the Button of the k-th of n characters (k from 0): a
\* TextBox at ((k + 1) * entry_offset, 1 - 1.5 * entry_offset), 0.1 wide and
\* 0.2 high, over a texture of its own
LoginButton(k, n) ==
    ButtonNew(TextBoxNew(<<(k + 1) * 10, LoginUnit(n) - 15>>,
                         n + 3, 2 * (n + 3), SimpleTex(k + 1)))

\* Login::on_active: container.add for every character, in their order
RECURSIVE LoginAdd(_, _, _)
LoginAdd(comps, k, n) ==
    IF k >= n THEN comps
    ELSE LoginAdd(ContainerAdd(comps, LoginButton(k, n)), k + 1, n)

\* where the cursor is moved to: the corner of the window, and the upper
\* right corner of every button
LoginPoints(n) ==
    {<<0, 0>>}
    \cup {<<(k + 1) * 10 + n + 3, LoginUnit(n) - 15 + 2 * (n + 3)>> :
              k \in 0..(n - 1)}

\* QuadPositions writes the 1.0 of x * 2.0 - 1.0 as GridMax; in units of
\* 1 / LoginUnit(n) it is LoginUnit(n)
ToLoginUnit(model, n) ==
    [model EXCEPT !.vertices =
        [i \in 1..Len(model.vertices) |->
            [model.vertices[i] EXCEPT
                !.pos = <<@[1] + GridMax - LoginUnit(n),
                          @[2] + GridMax - LoginUnit(n)>>]]]

\* ScreenSystem::tick for the screen on top: Container::build_models of its
\* container.  The container of Login holds the Buttons of the characters
\* (comps: the container after the call, models: what it returns, in units of
\* 1 / LoginUnit(n)), the container of InGame holds nothing
\* (InGame::on_active adds no component)
ScreenModels(screen, login, n) ==
    IF screen = "Login"
    THEN LET r == ScanBuild([comps |-> login, models |-> <<>>, built |-> <<>>], 1)
         IN  [comps |-> r.comps,
              models |-> [k \in 1..Len(r.models) |-> ToLoginUnit(r.models[k], n)]]
    ELSE [comps |-> login, models |-> <<>>]

\* Screen::tick: Login does nothing, InGame extends Game.models by a grid of
\* NUM_INSTANCES_PER_ROW x NUM_INSTANCES_PER_ROW instances of its board model
ScreenTick(screen, board_id, n) ==
    IF screen = "Login" THEN <<>>
    ELSE [k \in 1..(NUM_INSTANCES_PER_ROW * NUM_INSTANCES_PER_ROW) |->
            [model_id |-> board_id,
             instance |-> << (k - 1) % NUM_INSTANCES_PER_ROW,
                             (k - 1) \div NUM_INSTANCES_PER_ROW >>,
             frame |-> n]]

\* Renderer::resize: a new depth texture of the size of the surface
RendererResize(a) == [a EXCEPT !.depth_tex = a.size]

NoEvent == [op |-> "new", size |-> <<0, 0>>, ok |-> TRUE, handed |-> <<>>,
            ui_models |-> 0, appended |-> 0, outcome |-> ""]

InitApp ==
    /\ WidgetsIdle
    /\ geom = Unused
    /\ frame = Unused
    /\ app \in
         {[screen |-> "Login", characters |-> n,
           login |-> LoginAdd(<<>>, 0, n), mouse_pos |-> <<0, 0>>,
           board_id |-> 0, registry |-> <<>>,
           size |-> InitialSize, dimensions |-> InitialSize,
           depth_tex |-> InitialSize, models |-> <<>>,
           controller |-> CameraControllerNew(1), pitch |-> 0,
           frames |-> 0, running |-> TRUE, last |-> NoEvent] :
              n \in 0..MaxCharacters}
    /\ reg = Unused
    /\ cam = Unused
    /\ dims = Unused
    /\ lk = Unused

\* the InGame screen is pushed: InGame::init registers the board model
PushInGame ==
    /\ app.running
    /\ app.screen = "Login"
    /\ LET registry == Append(app.registry,
                              Uploaded([meshes |-> <<Mesh(0, 36)>>, materials |-> 1],
                                       "Tex"))
       IN  app' = [app EXCEPT !.screen = "InGame", !.registry = registry,
                              !.board_id = add_model_handle(registry),
                              !.last = [NoEvent EXCEPT !.op = "PushInGame"]]
    /\ UNCHANGED <<uiVars, concVars, geom, frame, reg, cam, dims, lk>>

\* WindowEvent::Resized(size); ok is the result of State::resize
Resized(size, ok) ==
    /\ app.running
    /\ app' = [app EXCEPT !.size = IF ok THEN size ELSE @,
                          !.dimensions = IF ok THEN size ELSE @,
                          !.last = [NoEvent EXCEPT !.op = "Resized",
                                                   !.size = size, !.ok = ok]]
    /\ UNCHANGED <<uiVars, concVars, geom, frame, reg, cam, dims, lk>>

\* WindowEvent::ScaleFactorChanged { new_inner_size, .. }
ScaleFactorChanged(size, ok) ==
    /\ app.running
    /\ app' = [app EXCEPT !.size = IF ok THEN size ELSE @,
                          !.last = [NoEvent EXCEPT !.op = "ScaleFactorChanged",
                                                   !.size = size, !.ok = ok]]
    /\ UNCHANGED <<uiVars, concVars, geom, frame, reg, cam, dims, lk>>

\* WindowEvent::CursorMoved: mouse_pos becomes the position of the cursor
\* divided by the dimensions (pos, as a fraction of the window in units of
\* 1 / LoginUnit), and the container of the screen on top gets on_mouse_hover
CursorMoved(pos) ==
    /\ app.running
    /\ app' = [app EXCEPT
                 !.mouse_pos = pos,
                 !.login = IF app.screen = "Login"
                           THEN ScanHover(ScanStart(@), 1, pos).comps ELSE @,
                 !.last = [NoEvent EXCEPT !.op = "CursorMoved"]]
    /\ UNCHANGED <<uiVars, concVars, geom, frame, reg, cam, dims, lk>>

\* WindowEvent::MouseInput: the left button gives on_mouse_click at mouse_pos
\* to the container of the screen on top, PressDown when it is pressed and
\* Release otherwise; the other buttons give nothing
MouseInput(button, click_kind) ==
    /\ app.running
    /\ app' = [app EXCEPT
                 !.login = IF app.screen = "Login" /\ button = "Left"
                           THEN ScanClick(ScanStart(@), 1, app.mouse_pos,
                                          click_kind).comps
                           ELSE @,
                 !.last = [NoEvent EXCEPT !.op = "MouseInput"]]
    /\ UNCHANGED <<uiVars, concVars, geom, frame, reg, cam, dims, lk>>

\* Event::RedrawRequested: the tick of the screen, update_camera, and
\* renderer.render(models, vec![], ..) with the UI models of the tick
RedrawRequested(outcome, dt) ==
    /\ app.running
    /\ app.frames < MaxFrames
    /\ LET appended == ScreenTick(app.screen, app.board_id, app.frames + 1)
           handed == <<>>
           ticked == ScreenModels(app.screen, app.login, app.characters)
           ui_models == ticked.models
           rendered == RenderFrame(ui_models, handed, app.registry,
                                   NumGlyphs, outcome, NumGlyphs)
           updated == update_camera(app.controller, app.pitch, dt)
       IN  app' = [app EXCEPT !.models = @ \o appended,
                              !.login = ticked.comps,
                              !.controller = updated.c,
                              !.pitch = updated.pitch,
                              !.frames = @ + 1,
                              !.running = ~rendered.panicked,
                              !.last = [NoEvent EXCEPT
                                          !.op = "RedrawRequested",
                                          !.handed = handed,
                                          !.ui_models = Len(ui_models),
                                          !.appended = Len(appended),
                                          !.outcome = outcome]]
    /\ UNCHANGED <<uiVars, concVars, geom, frame, reg, cam, dims, lk>>

NextApp ==
    \/ PushInGame
    \/ \E size \in WindowSizes, ok \in BOOLEAN : Resized(size, ok)
    \/ \E size \in WindowSizes, ok \in BOOLEAN : ScaleFactorChanged(size, ok)
    \/ \E pos \in LoginPoints(app.characters) : CursorMoved(pos)
    \/ \E button \in {"Left", "Right"}, click_kind \in ClickKinds :
          MouseInput(button, click_kind)
    \/ \E outcome \in Outcomes, dt \in Dts : RedrawRequested(outcome, dt)

SpecApp == InitApp /\ [][NextApp]_vars

\* ------------------------------------ Renderer.dimensions and the event loop
\* Dimensions packs width and height into one AtomicU64: the width in the low
\* half, the height in the high half.  The halves are scaled from 32 to
\* DimBits bits (and the word to 2 * DimBits bits, arithmetic modulo U64), so
\* that the packed values stay inside the integers of the checker; a store
\* and a load of the atomic are one step each.  The closure given to
\* event_loop.run handles one event at a time on the main thread: pc is
\* "idle" between two events and "frame" inside the RedrawRequested handler,
\* todo counts the TextBoxes whose do_render is still to run, glyphs the
\* glyph brushes of the renderer, flush those the flush loop has still to
\* flush, reads lists
\* what the reads of the current (or last) frame returned, written is the
\* pair given to the last new/set, got the result of the get of the last
\* CursorMoved, resized whether a Resized event has set the dimensions.
DimBits == 12

MaxTextBoxes == 2

U32 == 2 ^ DimBits

U64 == U32 * U32

\* mutant: the height is shifted by one bit less than the width is wide
DimensionsPackShort(width, height) ==
    ((width % U32) + (height % U32) * (U32 \div 2)) % U64

\* width as u64 | ((height as u64) << 32): the two halves share no bit, so
\* the bitwise or is the sum
DimensionsPack(width, height) ==
    ((width % U32) + (height % U32) * U32) % U64

\* Dimensions::get: (val as u32, (val >> 32) as u32)
DimensionsGet(val) == <<val % U32, (val \div U32) % U32>>

\* window sizes: empty, ordinary, and the largest value in either half
DimSizes == {<<0, 0>>, <<800, 600>>, <<U32 - 1, 1>>, <<1, U32 - 1>>}

NoRead == <<>>

\* mutant: an event is handled while the handler of another is running
EventLoopAlways(d) == TRUE

\* the closure of event_loop.run is entered for the next event only when it
\* has returned from the one before
EventLoopIdle(d) == d.pc = "idle"

\* Renderer::new: Dimensions::new(width, height) of the window
InitDims ==
    /\ WidgetsIdle
    /\ geom = Unused
    /\ frame = Unused
    /\ app = Unused
    /\ reg = Unused
    /\ cam = Unused
    /\ lk = Unused
    /\ dims \in {[inner |-> DimensionsPack(s[1], s[2]), pc |-> "idle",
                  todo |-> 0, glyphs |-> NumGlyphs, flush |-> 0,
                  reads |-> <<>>, written |-> s, got |-> NoRead,
                  resized |-> FALSE, last |-> "new"] : s \in DimSizes}

\* WindowEvent::Resized: dimensions.set if state.resize succeeded
DimsResized(size, ok) ==
    /\ EventLoopIdle(dims)
    /\ dims' = IF ok
               THEN [dims EXCEPT !.inner = DimensionsPack(size[1], size[2]),
                                 !.written = size, !.resized = TRUE,
                                 !.last = "set"]
               ELSE [dims EXCEPT !.last = "resize_failed"]
    /\ UNCHANGED <<uiVars, concVars, geom, frame, app, reg, cam, lk>>

\* WindowEvent::CursorMoved: dimensions.get to scale the position
DimsCursorMoved ==
    /\ EventLoopIdle(dims)
    /\ dims' = [dims EXCEPT !.got = DimensionsGet(dims.inner), !.last = "get"]
    /\ UNCHANGED <<uiVars, concVars, geom, frame, app, reg, cam, lk>>

\* Event::RedrawRequested, up to the loop of Container::build_models over
\* the n TextBoxes of the screen
DimsRedrawRequested(n) ==
    /\ EventLoopIdle(dims)
    /\ dims' = [dims EXCEPT !.pc = "frame", !.todo = n, !.flush = 0,
                            !.reads = <<>>, !.last = "redraw"]
    /\ UNCHANGED <<uiVars, concVars, geom, frame, app, reg, cam, lk>>

\* TextBox::do_render: dimensions.get, then queue_glyph
DimsDoRender ==
    /\ dims.pc = "frame"
    /\ dims.todo > 0
    /\ dims' = [dims EXCEPT !.todo = @ - 1,
                            !.reads = Append(@, DimensionsGet(dims.inner)),
                            !.last = "do_render"]
    /\ UNCHANGED <<uiVars, concVars, geom, frame, app, reg, cam, lk>>

\* Renderer::render: dimensions.get for the draw_queued of one glyph brush.
\* The loop runs under the glyphs lock over the brushes the renderer has when
\* it begins (flush is 0 outside the loop, inside it the brushes still to
\* flush); the handler returns after the last brush
DimsFlush ==
    LET left == IF dims.flush = 0 THEN dims.glyphs ELSE dims.flush
    IN  /\ dims.pc = "frame"
        /\ dims.todo = 0
        /\ dims' = [dims EXCEPT !.pc = IF left = 1 THEN "idle" ELSE "frame",
                                !.flush = left - 1,
                                !.reads = Append(@, DimensionsGet(dims.inner)),
                                !.last = "flush"]
        /\ UNCHANGED <<uiVars, concVars, geom, frame, app, reg, cam, lk>>

\* Renderer::add_glyph, by any thread: it takes the glyphs lock, so it runs
\* at any time but inside the flush loop
DimsAddGlyph ==
    /\ dims.flush = 0
    /\ dims.glyphs < MaxGlyphs
    /\ dims' = [dims EXCEPT !.glyphs = @ + 1]
    /\ UNCHANGED <<uiVars, concVars, geom, frame, app, reg, cam, lk>>

NextDims ==
    \/ \E size \in DimSizes, ok \in BOOLEAN : DimsResized(size, ok)
    \/ DimsCursorMoved
    \/ \E n \in 0..MaxTextBoxes : DimsRedrawRequested(n)
    \/ DimsDoRender
    \/ DimsFlush
    \/ DimsAddGlyph

SpecDims == InitDims /\ [][NextDims]_vars

\* --------------------------------------------- the locks of a Container
\* The locks: "list" is Container.components (RwLock), "comp" i is the
\* RwLock around the i-th Component, "cache" i the Mutex of its
\* precomputed_model, "glyph" is Renderer.glyphs (Mutex; the brush lock is
\* taken only inside it).  A call is the list of lock operations its code
\* performs, in the order of its statements; a guard that is a temporary of
\* one statement is released by the next operation.  The loops over the
\* components run under the read lock of the list, so what they do is fixed
\* when that lock is taken: n components, and for each of them the branches
\* that the state of the components selects (dirty or not, text or not, hit
\* or not, hovered or not), all of which are allowed here.  lk.n is the
\* number of components, lk.todo[t] the operations thread t has still to
\* perform in its call, lk.held[t] the locks it holds in the order it took
\* them, lk.calls the calls started so far by all threads.  Callbacks take
\* no lock.
MaxLockComps == 1

MaxLockCalls == 4

LockThreads == {"add", "build_models", "on_mouse_click", "on_mouse_hover"}

Acq(lock, i, mode) == [a |-> "acq", lock |-> lock, i |-> i, mode |-> mode]

Rel(lock, i) == [a |-> "rel", lock |-> lock, i |-> i, mode |-> ""]

\* Container::add: the model is built under the read lock of the component
\* handed in, then the component is pushed under the write lock of the list
AddOps(n) ==
    << Acq("comp", n + 1, "r"), Rel("comp", n + 1), Acq("list", 0, "w"),
       [a |-> "push", lock |-> "list", i |-> 0, mode |-> ""] >>

\* mutant: the cache is written while the write guard of the component is held
BuildOpsCacheUnderComp(i, dirty, text) ==
    (IF dirty
     THEN << Acq("comp", i, "w"), Acq("cache", i, "w"), Rel("cache", i),
             Rel("comp", i) >>
     ELSE << Acq("cache", i, "w"), Rel("cache", i) >>)
    \o << Acq("comp", i, "r") >>
    \o (IF text THEN << Acq("glyph", 0, "w"), Rel("glyph", 0) >> ELSE <<>>)
    \o << Rel("comp", i) >>

\* one round of the loop of Container::build_models: InnerUIComponent::
\* build_model (builder under the write lock if dirty, then the cache), then
\* do_render under the read lock, which queues a glyph if there is text
BuildOps(i, dirty, text) ==
    (IF dirty
     THEN << Acq("comp", i, "w"), Rel("comp", i), Acq("cache", i, "w"),
             Rel("cache", i) >>
     ELSE << Acq("cache", i, "w"), Rel("cache", i) >>)
    \o << Acq("comp", i, "r") >>
    \o (IF text THEN << Acq("glyph", 0, "w"), Rel("glyph", 0) >> ELSE <<>>)
    \o << Rel("comp", i) >>

\* one round of the loop of Container::on_mouse_click: is_inbounds (read) as
\* long as nothing was hit, then on_click or on_click_outside (write)
ClickOps(i, hit) ==
    (IF hit = 0 \/ i <= hit
     THEN << Acq("comp", i, "r"), Rel("comp", i) >> ELSE <<>>)
    \o << Acq("comp", i, "w"), Rel("comp", i) >>

\* one round of the loop of Container::on_mouse_hover: is_inbounds (read) as
\* long as nothing was hit; on_hover(Enter) (write) for the hit; otherwise
\* is_hovered (read) and on_hover(Exit) (write) if it was hovered
HoverOps(i, hit, hovered) ==
    (IF hit = 0 \/ i <= hit
     THEN << Acq("comp", i, "r"), Rel("comp", i) >> ELSE <<>>)
    \o (IF i = hit
        THEN << Acq("comp", i, "w"), Rel("comp", i) >>
        ELSE << Acq("comp", i, "r"), Rel("comp", i) >>
             \o (IF hovered THEN << Acq("comp", i, "w"), Rel("comp", i) >>
                 ELSE <<>>))

\* the operations of the loops over n components, for every choice of branches
ProgramsOf(t, n) ==
    CASE t = "build_models" ->
            { Concat([i \in 1..n |-> BuildOps(i, i \in dirty, i \in text)]) :
                dirty \in SUBSET (1..n), text \in SUBSET (1..n) }
      [] t = "on_mouse_click" ->
            { Concat([i \in 1..n |-> ClickOps(i, hit)]) : hit \in 0..n }
      [] t = "on_mouse_hover" ->
            { Concat([i \in 1..n |-> HoverOps(i, hit, i \in hovered)]) :
                hit \in 0..n, hovered \in SUBSET (1..n) }
      [] OTHER -> {}

Programs ==
    [t \in LockThreads |-> [n \in 0..MaxLockComps |-> ProgramsOf(t, n)]]

\* an RwLock is free for a reader if nobody holds it for writing, and for a
\* writer (or a Mutex for its one holder) if nobody holds it at all
Available(l, op) ==
    \A u \in LockThreads :
        \A k \in 1..Len(l.held[u]) :
            (l.held[u][k].lock = op.lock /\ l.held[u][k].i = op.i) =>
                (op.mode = "r" /\ l.held[u][k].mode = "r")

Enter == [a |-> "enter", lock |-> "list", i |-> 0, mode |-> "r"]

InitLocks ==
    /\ WidgetsIdle
    /\ geom = Unused
    /\ frame = Unused
    /\ app = Unused
    /\ reg = Unused
    /\ cam = Unused
    /\ dims = Unused
    /\ lk \in {[n |-> n, todo |-> [t \in LockThreads |-> <<>>],
                held |-> [t \in LockThreads |-> <<>>],
                calls |-> 0] : n \in 0..MaxLockComps}

\* a thread starts its call
LkCall(t) ==
    /\ lk.todo[t] = <<>>
    /\ lk.calls < MaxLockCalls
    /\ t = "add" => lk.n < MaxLockComps
    /\ lk' = [lk EXCEPT !.calls = @ + 1,
                        !.todo[t] = IF t = "add" THEN AddOps(lk.n)
                                    ELSE <<Enter>>]
    /\ UNCHANGED <<uiVars, concVars, geom, frame, app, reg, cam, dims>>

\* self.components.read(): the loop is entered, over the components there are
LkEnter(t, program) ==
    /\ lk.todo[t] # <<>>
    /\ Head(lk.todo[t]) = Enter
    /\ Available(lk, Enter)
    /\ lk' = [lk EXCEPT !.held[t] = Append(@, [lock |-> "list", i |-> 0, mode |-> "r"]),
                        !.todo[t] = program \o <<Rel("list", 0)>>]
    /\ UNCHANGED <<uiVars, concVars, geom, frame, app, reg, cam, dims>>

\* read(), write() or lock() returns
LkAcquire(t) ==
    /\ lk.todo[t] # <<>>
    /\ Head(lk.todo[t]).a = "acq"
    /\ Available(lk, Head(lk.todo[t]))
    /\ lk' = [lk EXCEPT !.held[t] =
                            Append(@, [lock |-> Head(lk.todo[t]).lock,
                                       i |-> Head(lk.todo[t]).i,
                                       mode |-> Head(lk.todo[t]).mode]),
                        !.todo[t] = Tail(@)]
    /\ UNCHANGED <<uiVars, concVars, geom, frame, app, reg, cam, dims>>

\* a guard is dropped; the guard of add is dropped after the push
LkRelease(t) ==
    /\ lk.todo[t] # <<>>
    /\ Head(lk.todo[t]).a \in {"rel", "push"}
    /\ lk' = [lk EXCEPT !.held[t] =
                            SelectSeq(@, LAMBDA h :
                                ~(h.lock = Head(lk.todo[t]).lock
                                  /\ h.i = Head(lk.todo[t]).i)),
                        !.todo[t] = Tail(@),
                        !.n = IF Head(lk.todo[t]).a = "push" THEN @ + 1 ELSE @]
    /\ UNCHANGED <<uiVars, concVars, geom, frame, app, reg, cam, dims>>

LkStep(t) ==
    \/ \E program \in Programs[t][lk.n] : LkEnter(t, program)
    \/ LkAcquire(t)
    \/ LkRelease(t)

NextLocks == \E t \in LockThreads : LkCall(t) \/ LkStep(t)

\* as long as some thread can take a step of its call, steps are taken
SpecLocks ==
    /\ InitLocks
    /\ [][NextLocks]_vars
    /\ WF_vars(\E t \in LockThreads : LkStep(t))

\* ================================================================== claims
Indices == 1..Len(components)

IsButton(u) == u.inner.kind = "Button"

\* index of the first component, in insertion order, whose bounds contain pos;
\* 0 when there is none
FirstContaining(comps, pos) ==
    IF \E k \in 1..Len(comps) : UIIsInbounds(comps[k], pos)
    THEN CHOOSE k \in 1..Len(comps) :
             /\ UIIsInbounds(comps[k], pos)
             /\ \A j \in 1..(k - 1) : ~UIIsInbounds(comps[j], pos)
    ELSE 0

\* the component as it was when added: neither hovered nor pressed
ComponentsTemplate(c) ==
    IF c.kind = "Button" THEN [c EXCEPT !.hovered = FALSE, !.pressed = FALSE] ELSE c

GrayscaleFlagged(u) ==
    /\ IsButton(u)
    /\ u.inner.inner_box.coloring.tag = "Tex"
    /\ u.inner.inner_box.coloring.grayscale_conv

\* C1: in a click dispatch the first component (insertion order) whose bounds
\* contain the pointer receives on_click(kind, pos) and every other component
\* receives on_click_outside; each component receives exactly one call.
C1_ClickDispatch ==
    last.op = "on_mouse_click" =>
        /\ Len(last.calls) = Len(components)
        /\ \A k \in Indices :
              last.calls[k] =
                  IF k = FirstContaining(components, last.pos)
                  THEN <<ClickCall(last.kind, last.pos)>>
                  ELSE <<OutsideCall>>

C1_Witness ==
    /\ last.op = "on_mouse_click"
    /\ Len(components) = 3
    /\ UIIsInbounds(components[1], last.pos)
    /\ UIIsInbounds(components[2], last.pos)
    /\ last.calls[1] = <<ClickCall(last.kind, last.pos)>>
    /\ last.calls[2] = <<OutsideCall>>
    /\ last.calls[3] = <<OutsideCall>>

\* C2: in a hover dispatch the first component whose bounds contain the
\* pointer receives on_hover(Enter, pos); every other component whose
\* is_hovered() reported Enter receives on_hover(Exit, pos); the remaining
\* components receive no call.
C2_HoverDispatch ==
    [][ last'.op = "on_mouse_hover" =>
          /\ Len(last'.calls) = Len(components)
          /\ \A k \in Indices :
                last'.calls[k] =
                    IF k = FirstContaining(components, last'.pos)
                    THEN <<HoverCall("Enter", last'.pos)>>
                    ELSE IF UIIsHovered(components[k]) = "Enter"
                         THEN <<HoverCall("Exit", last'.pos)>>
                         ELSE <<>> ]_vars

C2_Witness ==
    /\ last.op = "on_mouse_hover"
    /\ \E i, j, k \in Indices :
          /\ last.calls[i] = <<HoverCall("Enter", last.pos)>>
          /\ last.calls[j] = <<HoverCall("Exit", last.pos)>>
          /\ UIIsInbounds(components[j], last.pos)
          /\ last.calls[k] = <<>>

\* C3: Button.on_click(PressDown, pos) sets pressed for any pos and runs no
\* callback; Button.on_click(Release, pos) clears pressed and runs the
\* callback exactly once if pos is within the button's bounds, else not at all.
C3_ButtonOnClick ==
    (last.op = "on_click" /\ IsButton(components[last.i])) =>
        LET u == components[last.i]
        IN  /\ last.kind = "PressDown" =>
                  (u.inner.pressed /\ last.cb[last.i] = 0)
            /\ last.kind = "Release" =>
                  /\ ~u.inner.pressed
                  /\ last.cb[last.i] = IF UIIsInbounds(u, last.pos) THEN 1 ELSE 0

C3_Witness ==
    /\ last.op = "on_click"
    /\ IsButton(components[last.i])
    /\ last.kind = "Release"
    /\ ~UIIsInbounds(components[last.i], last.pos)
    /\ prev.op = "on_click"
    /\ prev.kind = "PressDown"

\* C4: a press dispatched inside a Button of a Container followed by a
\* release dispatched outside its bounds runs no callback and leaves the
\* button with pressed = false.
C4_ReleaseOutsideClearsPressed ==
    [][ ( /\ last.op = "on_mouse_click"
          /\ last.kind = "PressDown"
          /\ last.i > 0
          /\ IsButton(components[last.i])
          /\ last'.op = "on_mouse_click"
          /\ last'.kind = "Release"
          /\ Len(components') = Len(components)
          /\ ~UIIsInbounds(components[last.i], last'.pos) )
        => ( /\ last'.cb[last.i] = 0
             /\ ~components'[last.i].inner.pressed ) ]_vars

\* C5: after an on_hover(Enter/Exit) call on a Button is_hovered() reports the
\* mode of that call, and repeating the call leaves the button unchanged.
C5_HoverReflectsLastCall ==
    (last.op = "on_hover" /\ IsButton(components[last.i])) =>
        LET u == components[last.i]
        IN  /\ UIIsHovered(u) = last.kind
            /\ UIOnHover(u, last.kind, last.pos) = u

C5_Witness ==
    /\ last.op = "on_hover"
    /\ IsButton(components[last.i])
    /\ last.kind = "Exit"
    /\ prev.op = "on_hover"
    /\ prev.kind = "Enter"

\* C6: once the click callback has set grayscale_conv on a Button, no later
\* PressDown, Release, hover Enter or hover Exit clears it.
C6_GrayscaleLatch ==
    [][ \A i \in Indices :
          GrayscaleFlagged(components[i]) =>
              (i <= Len(components') /\ GrayscaleFlagged(components'[i])) ]_vars

C6_Witness ==
    /\ GrayscaleFlagged(components[1])
    /\ last.op = "on_hover"
    /\ last.kind = "Enter"
    /\ prev.op = "on_hover"
    /\ prev.kind = "Exit"

\* the factor the claim attaches to a button state
ExpectedScale(b) ==
    IF b.hovered /\ b.pressed THEN 64
    ELSE IF b.hovered \/ b.pressed THEN 80
    ELSE 100

BuiltButton ==
    /\ last.op = "build_model"
    /\ last.built[last.i] = 1
    /\ IsButton(components[last.i])

SameShape(model, base) ==
    /\ Len(model.vertices) = Len(base.vertices)
    /\ model.color_src = base.color_src
    /\ \A k \in 1..Len(base.vertices) :
          /\ model.vertices[k].tag = base.vertices[k].tag
          /\ model.vertices[k].pos = base.vertices[k].pos

\* C7 as stated: Button.build_model multiplies every colour channel, alpha
\* included, of a per-vertex-colour vertex (or the color_scale_factor of a
\* textured vertex) by 0.8 when hovered and again by 0.8 when pressed;
\* positions, vertex count and ColorSource are the inner TextBox's.
C7_ScalesColorAndAlpha ==
    BuiltButton =>
        LET b == components[last.i].inner
            model == last.ret[last.i]
            base == TextBoxBuildModel(b.inner_box)
            f == ExpectedScale(b)
        IN  /\ SameShape(model, base)
            /\ \A k \in 1..Len(base.vertices) :
                  IF base.vertices[k].tag = "Color"
                  THEN \A ch \in 1..4 :
                          model.vertices[k].color[ch] * 100 =
                              base.vertices[k].color[ch] * f
                  ELSE model.vertices[k].color_scale_factor * 100 =
                           base.vertices[k].color_scale_factor * f

\* C7 amended: only the r, g, b channels of a per-vertex-colour vertex are
\* multiplied (its alpha is the TextBox's), and a textured vertex gets the
\* factor as color_scale_factor with alpha and uv unchanged; the factor is
\* 0.8 when hovered times 0.8 when pressed (0.64 for both, 1.0 for neither).
C7_ScalesRgbOnly ==
    BuiltButton =>
        LET b == components[last.i].inner
            model == last.ret[last.i]
            base == TextBoxBuildModel(b.inner_box)
            f == ExpectedScale(b)
        IN  /\ SameShape(model, base)
            /\ \A k \in 1..Len(base.vertices) :
                  IF base.vertices[k].tag = "Color"
                  THEN /\ \A ch \in 1..3 :
                             model.vertices[k].color[ch] * 100 =
                                 base.vertices[k].color[ch] * f
                       /\ model.vertices[k].color[4] = base.vertices[k].color[4]
                  ELSE /\ model.vertices[k].color_scale_factor * 100 =
                              base.vertices[k].color_scale_factor * f
                       /\ model.vertices[k].alpha = base.vertices[k].alpha
                       /\ model.vertices[k].uv = base.vertices[k].uv

C7_Witness ==
    /\ BuiltButton
    /\ components[last.i].inner.hovered
    /\ components[last.i].inner.pressed
    /\ last.ret[last.i].color_src.tag = "PerVert"
    /\ last.ret[last.i].vertices[6].color = <<0, 16, 48, 50>>

\* C8: UIComponent.build_model with the dirty flag clear returns the stored
\* model, runs no builder and leaves the cache alone; with the flag set it
\* runs the builder, stores the result, clears the flag and returns it.
C8_BuildModelContract ==
    [][ last'.op = "build_model" =>
          LET i == last'.i
              u == components[i]
              v == components'[i]
          IN  IF u.dirty
              THEN /\ last'.built[i] = 1
                   /\ last'.ret[i] = ComponentBuildModel(u.inner)
                   /\ v.precomputed_model = last'.ret[i]
                   /\ ~v.dirty
                   /\ v.inner = u.inner
              ELSE /\ last'.built[i] = 0
                   /\ last'.ret[i] = u.precomputed_model
                   /\ v = u ]_vars

C8_Witness ==
    /\ last.op = "build_model"
    /\ last.built[last.i] = 1
    /\ ~components[last.i].dirty
    /\ components[last.i].precomputed_model = last.ret[last.i]
    /\ last.ret[last.i] # ComponentBuildModel(ComponentsTemplate(components[last.i].inner))

TwoBuilds ==
    /\ last.op = "build_model"
    /\ prev.op = "build_model"
    /\ prev.i = last.i

\* C9 as stated: two consecutive build_model calls with no mutation between
\* them return identical geometry and run the builder exactly once in total.
C9_ExactlyOneBuild ==
    TwoBuilds =>
        /\ last.ret[last.i] = prev.ret
        /\ prev.built + last.built[last.i] = 1

\* C9 amended: the two calls return identical geometry and the second call
\* never runs the builder, so the builder runs at most once across the two.
C9_AtMostOneBuild ==
    TwoBuilds =>
        /\ last.ret[last.i] = prev.ret
        /\ last.built[last.i] = 0
        /\ prev.built + last.built[last.i] <= 1

C9_Witness ==
    /\ TwoBuilds
    /\ prev.built = 1
    /\ last.built[last.i] = 0
    /\ last.ret[last.i] = prev.ret

\* C10: once a mutating call (on_click, on_click_outside, on_hover) that
\* overlapped no build_model call has returned, the first build_model call
\* that starts afterwards returns geometry built from a Component state at or
\* after that mutation, whatever other calls run concurrently.
C10_MutationVisible ==
    \A b \in Builders :
        (obs[b].done /\ obs[b].mustSeeClean > 0) => obs[b].freshClean

\* clip-space image of a normalized coordinate: clip = 2 * normalized - 1
Clip(x) == 2 * x - GridMax

\* C11: ColorBox::build_model and TextBox::build_model return exactly six
\* vertices, at the clip-space images of the corners bottom-left,
\* bottom-right, top-right, bottom-left, top-left, top-right of the rectangle
\* [pos, pos + (width, height)], in that order.
C11_SixClipCorners ==
    (geom.stage = "built" /\ geom.component.kind # "Button") =>
        LET c == geom.component
            v == geom.model.vertices
            x0 == Clip(c.pos[1])
            y0 == Clip(c.pos[2])
            x1 == Clip(c.pos[1] + c.width)
            y1 == Clip(c.pos[2] + c.height)
        IN  /\ Len(v) = 6
            /\ v[1].pos = <<x0, y0>>
            /\ v[2].pos = <<x1, y0>>
            /\ v[3].pos = <<x1, y1>>
            /\ v[4].pos = <<x0, y0>>
            /\ v[5].pos = <<x0, y1>>
            /\ v[6].pos = <<x1, y1>>

C11_Witness ==
    /\ geom.stage = "built"
    /\ geom.component.kind = "TextBox"
    /\ geom.component.pos = <<1, 2>>
    /\ geom.component.width = 2
    /\ geom.component.height = 1
    /\ geom.model.vertices[5].pos = <<Clip(1), Clip(3)>>

\* C12: with Coloring::Color vertex i carries the i-th supplied colour; with
\* Coloring::Tex the six UV coordinates follow the corner order bottom-left,
\* bottom-right, top-right, bottom-left, top-left, top-right (the corners of
\* one axis-aligned UV rectangle of non-zero extent), relative for a
\* standalone texture and absolute for an atlas allocation.
C12_CornerOrderedColoring ==
    (geom.stage = "built" /\ geom.component.kind # "Button") =>
        LET c == geom.component
            v == geom.model.vertices
        IN  IF c.coloring.tag = "Color"
            THEN \A i \in 1..6 :
                    v[i].tag = "Color" /\ v[i].color = c.coloring.colors[i]
            ELSE LET bl == v[1].uv.v
                     tr == v[3].uv.v
                 IN  /\ \A i \in 1..6 :
                            /\ v[i].tag = "Texture"
                            /\ v[i].uv.kind = IF c.coloring.ty.tag = "Atlas"
                                              THEN "Absolute" ELSE "Relative"
                     /\ bl[1] # tr[1]
                     /\ bl[2] # tr[2]
                     /\ v[2].uv.v = <<tr[1], bl[2]>>
                     /\ v[4].uv.v = bl
                     /\ v[5].uv.v = <<bl[1], tr[2]>>
                     /\ v[6].uv.v = tr

\* the UI models of the frame that are backed by atlas id, in submission order
AtlasBacked(id) ==
    SelectSeq(frame.ui_models,
              LAMBDA m : m.color_src.tag = "Atlas" /\ m.color_src.id = id)

\* C13: two atlas-backed UI quads of one frame that reference the same atlas
\* id are merged into one vertex list, and that list is drawn in the frame by
\* one draw with one bind group (that of the atlas).
C13_AtlasQuadsDrawnMerged ==
    (frame.stage = "done" /\ ~frame.panicked) =>
        \A id \in 1..2 :
            Len(AtlasBacked(id)) >= 2 =>
                LET merged ==
                        Concat([k \in 1..Len(AtlasBacked(id)) |->
                                  [i \in 1..Len(AtlasBacked(id)[k].vertices) |->
                                     ToAbsoluteTextureVertex(
                                         AtlasBacked(id)[k].vertices[i])]])
                    draws == frame.encoded.passes[1].draws
                IN  /\ id \in DOMAIN frame.encoded.buckets.atlas_models
                    /\ frame.encoded.buckets.atlas_models[id] = merged
                    /\ Cardinality({k \in 1..Len(draws) :
                                      draws[k].vertices = merged}) = 1

\* the number of instances of the frame that carry model id
Carrying(id) ==
    Cardinality({k \in 1..Len(frame.instances) :
                    frame.instances[k].model_id = id})

\* C14: in the 3-D pass every model id carried by at least one instance of
\* the frame gets exactly one indexed instanced draw per mesh of that model,
\* each with an instance count equal to the number of the frame's instances
\* carrying that id; a registered model without instances gets no draw, and
\* the frame does not panic, whatever that model is.  The instances name
\* registered models and the meshes drawn name materials of their model.
C14_InstancedDrawsPerMesh ==
    (/\ frame.stage \in {"presented", "done"}
     /\ frame.outcome = "Ok"
     /\ InstancesInRange(frame.models, frame.instances)
     /\ MaterialsInRange(frame.models, frame.instances)) =>
        /\ ~frame.panicked
        /\ Len(frame.encoded.passes) = 2
        /\ LET draws == frame.encoded.passes[2].draws
           IN  \A id \in 0..(Len(frame.models) - 1) :
                  IF Carrying(id) = 0
                  THEN id \notin DOMAIN draws
                  ELSE /\ id \in DOMAIN draws
                       /\ Len(draws[id]) = Len(frame.models[id + 1].meshes)
                       /\ \A k \in 1..Len(draws[id]) :
                             /\ draws[id][k].instances = Carrying(id)
                             /\ draws[id][k].num_elements =
                                   frame.models[id + 1].meshes[k].num_elements

C14_Witness ==
    /\ frame.stage = "done"
    /\ frame.outcome = "Ok"
    /\ Len(frame.models) = 2
    /\ Len(frame.models[2].meshes) = 2
    /\ Len(frame.instances) = 2
    /\ Carrying(1) = 2
    /\ frame.models[1].materials = 0
    /\ ~frame.panicked
    /\ DOMAIN frame.encoded.passes[2].draws = {1}
    /\ frame.encoded.passes[2].draws[1][2].instances = 2

IsPrefix(s, t) == Len(s) <= Len(t) /\ \A k \in 1..Len(s) : s[k] = t[k]

\* every handle handed out so far is the rank of its call, differs from every
\* other handle, and names the model its call registered
HandlesSound(r) ==
    /\ \A n \in 1..Len(r.returned) :
          /\ r.returned[n].handle = r.returned[n].k
          /\ r.returned[n].handle + 1 \in 1..Len(r.models)
          /\ r.models[r.returned[n].handle + 1] = r.returned[n].uploaded
    /\ \A n, m \in 1..Len(r.returned) :
          n # m => r.returned[n].handle # r.returned[m].handle

\* C15: add_model is append-only: the k-th call (from 0, in the order the
\* calls take the registry lock) returns handle k, the handles of concurrent
\* calls are pairwise distinct, and a returned handle names the same
\* registered model ever after (no step removes or reorders models).
C15_AppendOnlyHandles ==
    [][IsPrefix(reg.models, reg'.models) /\ HandlesSound(reg')]_vars

C15_Witness ==
    /\ Len(reg.returned) = 3
    /\ reg.returned[1].thread = "a2"
    /\ reg.returned[2].thread = "a1"
    /\ reg.returned[1].uploaded # reg.returned[2].uploaded
    /\ reg.returned[3].handle = 2

\* the pitch change one update_camera call asks for, before the clamp
PitchDelta(c, dt) == (0 - c.rotate_vertical) * c.sensitivity * dt

\* C17: after every update_camera call camera.pitch lies within
\* [-SAFE_FRAC_PI_2, SAFE_FRAC_PI_2]; a call that consumes a large positive
\* rotate_vertical (one that turns the camera by more than the whole range)
\* leaves the pitch exactly at -SAFE_FRAC_PI_2, a large negative one exactly
\* at +SAFE_FRAC_PI_2.
C17_PitchClamped ==
    [][\A dt \in Dts :
          (/\ cam'.last = "update_camera"
           /\ cam'.pitch = update_camera(cam.controller, cam.pitch, dt).pitch) =>
              /\ cam'.pitch >= 0 - SAFE_FRAC_PI_2
              /\ cam'.pitch <= SAFE_FRAC_PI_2
              /\ (cam.controller.rotate_vertical > 0
                  /\ cam.pitch + PitchDelta(cam.controller, dt) < 0 - SAFE_FRAC_PI_2)
                    => cam'.pitch = 0 - SAFE_FRAC_PI_2
              /\ (cam.controller.rotate_vertical < 0
                  /\ cam.pitch + PitchDelta(cam.controller, dt) > SAFE_FRAC_PI_2)
                    => cam'.pitch = SAFE_FRAC_PI_2]_vars

C17_Witness ==
    /\ cam.last = "update_camera"
    /\ cam.pitch = 0 - SAFE_FRAC_PI_2
    /\ cam.controller.rotate_vertical = 0

\* the controller with its pending mouse delta / scroll taken away
WithoutRotate(c) == [c EXCEPT !.rotate_horizontal = 0, !.rotate_vertical = 0]
WithoutScroll(c) == [c EXCEPT !.scroll = 0]

\* C18: update_camera zeroes scroll, rotate_horizontal and rotate_vertical
\* and leaves the six key amounts as they are; a key amount goes from 1 to 0
\* only by the release of a key bound to it; and every mouse-delta or scroll
\* input affects exactly one tick: it is consumed by the next update_camera,
\* so an input that is still pending when another one arrives keeps its
\* influence on the controller.
C18_EdgeAndLevelTriggered ==
    [][/\ cam'.last = "update_camera" =>
            /\ cam'.controller.scroll = 0
            /\ cam'.controller.rotate_horizontal = 0
            /\ cam'.controller.rotate_vertical = 0
            /\ \A a \in AmountFields : cam'.controller[a] = cam.controller[a]
       /\ \A a \in AmountFields :
            (cam.controller[a] = 1 /\ cam'.controller[a] = 0) =>
                \E key \in Keys :
                    /\ KeyAmount(key) = a
                    /\ cam'.last = "process_keyboard"
                    /\ cam'.controller =
                          process_keyboard(cam.controller, key, "Released").c
       /\ (/\ cam'.last = "process_mouse"
           /\ WithoutRotate(cam.controller) # cam.controller) =>
                \A d \in MouseDeltas :
                    cam'.controller = process_mouse(cam.controller, d[1], d[2])
                        => cam'.controller #
                              process_mouse(WithoutRotate(cam.controller), d[1], d[2])
       /\ (/\ cam'.last = "process_scroll"
           /\ WithoutScroll(cam.controller) # cam.controller) =>
                \A delta \in ScrollDeltas :
                    cam'.controller = process_scroll(cam.controller, delta)
                        => cam'.controller #
                              process_scroll(WithoutScroll(cam.controller), delta)
      ]_vars

\* C16: ModeledInstances live for one frame: the instances the screen's tick
\* appends are handed to the render call of that frame and drained, so
\* between two frames Game.models holds no instance appended by the tick of
\* a frame already rendered.
C16_InstancesDrainedEachFrame ==
    /\ app.last.op = "RedrawRequested" => Len(app.last.handed) = app.last.appended
    /\ \A k \in 1..Len(app.models) : app.models[k].frame > app.frames

\* C19: after a window-resize event (the surface having taken the new size)
\* the depth texture has been recreated for the new size, as Renderer::resize
\* does, and Dimensions holds the new size, before any further frame.
C19_ResizeUpdatesDepthAndDimensions ==
    (app.last.op = "Resized" /\ app.last.ok) =>
        /\ app.dimensions = app.last.size
        /\ app.depth_tex = RendererResize(app).depth_tex
        /\ app.depth_tex = app.last.size

\* C20: a frame whose submission or surface acquisition fails does not end
\* the program: the frame is dropped and the loop goes on to the next event.
C20_FailedFrameDropped ==
    (app.last.op = "RedrawRequested" /\ app.last.outcome # "Ok") => app.running

\* C21: whenever the dirty flag of a UIComponent is false and no call on the
\* component is in progress, its cached model is the model the wrapped
\* Component builds from its current state, under any interleaving of
\* on_click, on_click_outside, on_hover and build_model calls.
C21_CacheValidWhenClean ==
    ((\A t \in Threads : pc[t] = "idle") /\ ~components[1].dirty) =>
        components[1].precomputed_model = ComponentBuildModel(components[1].inner)

\* C22: every Model built by a ColorBox, a TextBox or a Button, in any state
\* the component can reach, has vertices of the variant its ColorSource
\* declares (PerVert: Color vertices; Atlas: Texture vertices with absolute
\* UV; Tex: Texture vertices with relative UV), so the partition loop of
\* Renderer::render reaches no unreachable!() arm on it.
C22_VariantMatchesColorSource ==
    geom.stage = "built" =>
        /\ geom.model.color_src = QuadColorSource(
              IF geom.component.kind = "Button"
              THEN geom.component.inner_box.coloring
              ELSE geom.component.coloring)
        /\ \A i \in 1..Len(geom.model.vertices) :
              LET vert == geom.model.vertices[i]
                  src == geom.model.color_src.tag
              IN  /\ src \in {"PerVert", "Atlas", "Tex"}
                  /\ src = "PerVert" => vert.tag = "Color"
                  /\ src = "Atlas" =>
                        vert.tag = "Texture" /\ vert.uv.kind = "Absolute"
                  /\ src = "Tex" =>
                        vert.tag = "Texture" /\ vert.uv.kind = "Relative"
        /\ ~Partition(EmptyBuckets, <<geom.model>>, 1).panicked

C22_Witness ==
    /\ geom.stage = "built"
    /\ geom.component.kind = "Button"
    /\ geom.component.hovered
    /\ geom.component.pressed
    /\ geom.model.color_src.tag = "Atlas"
    /\ geom.model.vertices[3].uv.kind = "Absolute"

\* the vertices of the frame's UI models whose ColorSource has tag and id,
\* converted by conv and concatenated in model order
BucketOf(tag, id, conv(_)) ==
    LET ms == SelectSeq(frame.ui_models,
                        LAMBDA m : m.color_src.tag = tag /\ m.color_src.id = id)
    IN  Concat([k \in 1..Len(ms) |->
                  [i \in 1..Len(ms[k].vertices) |-> conv(ms[k].vertices[i])]])

\* the ids of the ColorSources with tag among the frame's UI models
SourceIds(tag) ==
    {frame.ui_models[k].color_src.id :
        k \in {j \in 1..Len(frame.ui_models) :
                  frame.ui_models[j].color_src.tag = tag}}

\* C23: the partition loop of Renderer::render leaves one per-vertex-colour
\* bucket, one atlas bucket per atlas id and one standalone-texture bucket per
\* distinct texture; each bucket holds the vertices of the models of its
\* source, in model order, so every input vertex is in exactly one bucket.
C23_PartitionByColorSource ==
    (frame.stage = "done" /\ frame.encoded.ran /\ ~frame.encoded.buckets.panicked) =>
        LET buckets == frame.encoded.buckets
        IN  /\ buckets.color_models = BucketOf("PerVert", 0, ToColorVertex)
            /\ DOMAIN buckets.atlas_models = SourceIds("Atlas")
            /\ \A id \in SourceIds("Atlas") :
                  buckets.atlas_models[id] =
                      BucketOf("Atlas", id, ToAbsoluteTextureVertex)
            /\ Len(buckets.texture_models) = Cardinality(SourceIds("Tex"))
            /\ \A id \in SourceIds("Tex") :
                  \E k \in 1..Len(buckets.texture_models) :
                      /\ buckets.texture_models[k].tex = id
                      /\ buckets.texture_models[k].vertices =
                             BucketOf("Tex", id, ToRelativeTextureVertex)

\* C23 (amended): as C23 for the per-vertex-colour bucket and the atlas
\* buckets; the standalone-texture buckets are one per model with a
\* standalone texture, in model order, also when two models share a texture.
C23_PartitionPerTexturedModel ==
    (frame.stage = "done" /\ frame.encoded.ran /\ ~frame.encoded.buckets.panicked) =>
        LET buckets == frame.encoded.buckets
            texs == SelectSeq(frame.ui_models, LAMBDA m : m.color_src.tag = "Tex")
        IN  /\ buckets.color_models = BucketOf("PerVert", 0, ToColorVertex)
            /\ DOMAIN buckets.atlas_models = SourceIds("Atlas")
            /\ \A id \in SourceIds("Atlas") :
                  buckets.atlas_models[id] =
                      BucketOf("Atlas", id, ToAbsoluteTextureVertex)
            /\ Len(buckets.texture_models) = Len(texs)
            /\ \A k \in 1..Len(texs) :
                  /\ buckets.texture_models[k].tex = texs[k].color_src.id
                  /\ buckets.texture_models[k].vertices =
                       [i \in 1..Len(texs[k].vertices) |->
                           ToRelativeTextureVertex(texs[k].vertices[i])]

C23_Witness ==
    /\ frame.stage = "done"
    /\ frame.encoded.ran
    /\ Len(frame.ui_models) = 2
    /\ frame.ui_models[1].color_src.tag = "Tex"
    /\ frame.ui_models[2].color_src = frame.ui_models[1].color_src
    /\ Len(frame.encoded.buckets.texture_models) = 2

\* the steps of one Renderer::render call, in the claimed order; the flush of
\* the queued text is one draw_queued for each of the glyph brushes the
\* renderer has when the flush begins
RenderOrder ==
    <<"atlas_update", "ui_color_draw", "ui_tex_draws", "pass3d">>
    \o Repeat("text_flush", frame.brushes) \o <<"submit", "recall">>

\* C24: the steps of a Renderer::render call happen in the order atlas
\* update, UI per-vertex-colour draw, UI textured draws, 3-D instanced pass
\* with depth test, text flush, submission, recall of the staging belts: a
\* call that returns has done each exactly once in that order (the text flush
\* flushes every glyph brush once, the recall recalls the staging belt of
\* every brush, those added since the flush included), a call that panics
\* has done an initial part of it (the brushes before the failing one are
\* flushed), no belt is recalled before the submission, and the passes
\* encoded agree with the steps (pass 1: the colour draw first, then the
\* textured draws, no depth attachment; pass 2: the instanced draws, with the
\* depth attachment).
C24_RenderStepsInOrder ==
    frame.stage \in {"presented", "done"} =>
        /\ IsPrefix(frame.steps, RenderOrder)
        /\ (frame.stage = "done" /\ ~frame.panicked) => frame.steps = RenderOrder
        /\ frame.stage = "presented" =>
              /\ frame.steps = SubSeq(RenderOrder, 1, Len(RenderOrder) - 1)
              /\ frame.recalls = 0
        /\ frame.encoded.atlas_updates =
              Cardinality({k \in 1..Len(frame.steps) :
                              frame.steps[k] = "atlas_update"})
        /\ Len(frame.encoded.passes) =
              Cardinality({k \in 1..Len(frame.steps) :
                              frame.steps[k] \in {"ui_tex_draws", "pass3d"}})
        /\ Len(frame.encoded.passes) >= 1 =>
              LET draws == frame.encoded.passes[1].draws
              IN  /\ frame.encoded.passes[1].depth = "None"
                  /\ draws[1].pipeline = "color_ui"
                  /\ \A k \in 2..Len(draws) : draws[k].pipeline = "tex_ui"
        /\ Len(frame.encoded.passes) >= 2 =>
              frame.encoded.passes[2].depth = "Clear"
        /\ frame.encoded.text_flushes =
              Cardinality({k \in 1..Len(frame.steps) :
                              frame.steps[k] = "text_flush"})
        /\ frame.encoded.text_flushes <= frame.brushes
        /\ ~frame.panicked => frame.encoded.text_flushes = frame.brushes
        /\ (frame.stage = "done" /\ ~frame.panicked) =>
              /\ frame.recalls = frame.glyphs
              /\ frame.recalls >= frame.encoded.text_flushes
        /\ frame.presented <=> (\E k \in 1..Len(frame.steps) :
                                    frame.steps[k] = "submit")
        /\ frame.recalls > 0 => frame.presented

C24_Witness ==
    /\ frame.stage = "done"
    /\ ~frame.panicked
    /\ frame.steps = RenderOrder
    /\ Len(frame.encoded.passes[1].draws) = 3
    /\ DOMAIN frame.encoded.passes[2].draws # {}
    /\ frame.glyph_ids = <<NumGlyphs>>
    /\ frame.encoded.text_flushes = NumGlyphs + 1
    /\ frame.recalls = NumGlyphs + 1

\* the passes of the frame that open the colour attachment with a clear
ClearingPasses ==
    {k \in 1..Len(frame.encoded.passes) : frame.encoded.passes[k].load = "Clear"}

\* C25: in every frame the colour attachment is cleared once, by pass 1 (the
\* UI pass), and pass 2 (the 3-D pass) opens it with a load op, so what pass 1
\* drew is still there when pass 2 begins.
C25_OneClearPerFrame ==
    (frame.stage = "done" /\ frame.encoded.passes # <<>>) =>
        /\ ClearingPasses = {1}
        /\ Len(frame.encoded.passes) >= 2 => frame.encoded.passes[2].load = "Load"
        /\ ~frame.panicked => Len(frame.encoded.passes) = 2

C25_Witness ==
    /\ frame.stage = "done"
    /\ frame.presented
    /\ Len(frame.encoded.passes) = 2
    /\ Len(frame.encoded.passes[1].draws[1].vertices) > 0
    /\ DOMAIN frame.encoded.passes[2].draws # {}
    /\ frame.encoded.passes[2].load = "Load"

\* the value process_scroll derives from one scroll event
ScrollValue(delta) ==
    0 - (IF delta.tag = "LineDelta" THEN delta.scroll * 100 ELSE delta.scroll)

\* C26: mouse-delta and scroll inputs accumulate between ticks: each
\* process_mouse adds its delta to the pending rotation and each
\* process_scroll adds its value to the pending scroll, and update_camera
\* consumes the pending sums and resets them, so the tick sees the sum of all
\* deltas delivered since the tick before.
C26_DeltasAccumulate ==
    [][/\ cam'.last = "process_mouse" =>
            \E d \in MouseDeltas :
                /\ cam'.controller.rotate_horizontal =
                       cam.controller.rotate_horizontal + d[1]
                /\ cam'.controller.rotate_vertical =
                       cam.controller.rotate_vertical + d[2]
       /\ cam'.last = "process_scroll" =>
            \E delta \in ScrollDeltas :
                cam'.controller.scroll =
                    cam.controller.scroll + ScrollValue(delta)
       /\ cam'.last = "update_camera" =>
            /\ cam'.controller.rotate_vertical = 0
            /\ cam'.controller.rotate_horizontal = 0
            /\ cam'.controller.scroll = 0
      ]_vars

\* C27: all the reads of Renderer.dimensions made for one frame (one per
\* TextBox::do_render, one for each glyph brush flushed by Renderer::render)
\* return the same (width, height), also in runs in which Resized events change it.
C27_DimensionsStableInFrame ==
    \A i, j \in 1..Len(dims.reads) : dims.reads[i] = dims.reads[j]

C27_Witness ==
    /\ dims.last = "flush"
    /\ dims.resized
    /\ dims.pc = "idle"
    /\ dims.glyphs = NumGlyphs + 1
    /\ Len(dims.reads) = 4
    /\ dims.reads[4] = <<800, 600>>

\* C30: Dimensions::get returns the pair given to the one new/set call that
\* wrote the value it loads, never the width of one write with the height of
\* another; and get after set(w, h) returns (w, h), for sizes that include 0
\* and the largest value of either half.
C30_DimensionsRoundTrip ==
    /\ DimensionsGet(dims.inner) = dims.written
    /\ dims.last = "get" => dims.got = dims.written
    /\ dims.got # NoRead => dims.got \in DimSizes
    /\ \A i \in 1..Len(dims.reads) : dims.reads[i] \in DimSizes
    /\ \A s \in DimSizes :
          DimensionsGet(DimensionsPack(s[1], s[2])) = s

C30_Witness ==
    /\ dims.last = "get"
    /\ dims.resized
    /\ dims.written = <<1, U32 - 1>>
    /\ dims.got = <<1, U32 - 1>>
    /\ dims.inner = 1 + (U32 - 1) * U32

\* the indices of the Buttons of the container that are hovered
HoveredButtons ==
    {k \in 1..Len(components) :
        components[k].inner.kind = "Button" /\ components[k].inner.hovered}

\* the components whose bounds contain pos
Containing(pos) ==
    {k \in 1..Len(components) : UIIsInbounds(components[k], pos)}

\* C28: after every Container::on_mouse_hover at most one Button of the
\* container is hovered, and a hovered Button is the first component in
\* insertion order whose bounds contain the pointer.
C28_SingleHoverTarget ==
    last.op = "on_mouse_hover" =>
        /\ Cardinality(HoveredButtons) <= 1
        /\ \A k \in HoveredButtons :
              /\ k \in Containing(last.pos)
              /\ \A j \in Containing(last.pos) : k <= j

C28_Witness ==
    /\ last.op = "on_mouse_hover"
    /\ Len(components) >= 2
    /\ HoveredButtons = {2}
    /\ components[1].inner.kind = "Button"
    /\ Containing(last.pos) = {2}
    /\ components[1].dirty

\* thread t is inside a call
InCall(t) == lk.todo[t] # <<>>

\* thread t can take the next step of its call
CanStep(t) ==
    /\ InCall(t)
    /\ Head(lk.todo[t]).a \in {"acq", "enter"} => Available(lk, Head(lk.todo[t]))

\* lock y may be taken while lock x is held
NestedInOrder(x, y) ==
    \/ x.lock = "list" /\ y.lock \in {"comp", "cache", "glyph"}
    \/ x.lock = "comp" /\ y.lock = "glyph"

LockDiscipline ==
    \A t \in LockThreads :
        \A a, b \in 1..Len(lk.held[t]) :
            a < b => NestedInOrder(lk.held[t][a], lk.held[t][b])

NoDeadlock == (\E t \in LockThreads : InCall(t)) => \E t \in LockThreads : CanStep(t)

\* C29: concurrent Container::add, build_models, on_mouse_click and
\* on_mouse_hover calls never deadlock: a thread takes a lock while it holds
\* another only in the order component list, component, glyph state (the
\* cache lock only under the list lock, never together with a component
\* lock); whenever a call is in progress some thread can take a step; and
\* every call returns, so that from some point on no thread is inside a call.
C29_NoDeadlock ==
    /\ [](LockDiscipline /\ NoDeadlock)
    /\ <>[](\A t \in LockThreads : ~InCall(t))

C29_Witness ==
    /\ Len(lk.held["build_models"]) = 3
    /\ lk.held["build_models"][3].lock = "glyph"
    /\ lk.held["build_models"][2].i = 1
    /\ InCall("on_mouse_click") /\ ~CanStep("on_mouse_click")
    /\ Len(lk.held["on_mouse_hover"]) = 2

====
